---------------------------- MODULE Spec2Model ----------------------------
(***************************************************************************)
(* A model of the PrecisionCalculator / MathFix library: the scaled-integer *)
(* arithmetic, the string-rewriting expression evaluator and the            *)
(* configuration cascade.                                                   *)
(*                                                                         *)
(* JavaScript numbers are IEEE-754 binary64 values.  They are modelled      *)
(* exactly: a finite number is a sign, an odd (or zero) integer mantissa    *)
(* below 2^53 and a binary exponent.  Mantissas are wider than the          *)
(* integers of the model checker, so they are kept as little-endian         *)
(* sequences of limbs.  Strings are sequences of one-character strings.     *)
(***************************************************************************)
EXTENDS Integers, Sequences, FiniteSets, TLC

(***************************************************************************)
(* Exact natural numbers: little-endian limb sequences, <<>> is zero, the   *)
(* most significant limb is never zero.                                     *)
(***************************************************************************)
LimbBits == 15

Base == 2 ^ LimbBits

\* TLC evaluates the argument of an operator where it is first used; an
\* operator that starts with Forced(x) has it evaluated on entry
Forced(x) == x = x

Limb(a, i) ==
  CASE Forced(a) /\ Forced(i) -> (
    IF i <= Len(a) THEN a[i] ELSE 0
  )

\* a without its most significant zero limbs
BNorm(a) ==
  CASE Forced(a) -> (
    IF \A i \in 1..Len(a) : a[i] = 0 THEN <<>>
    ELSE SubSeq(a, 1, CHOOSE i \in 1..Len(a) :
                        a[i] # 0 /\ \A j \in (i + 1)..Len(a) : a[j] = 0)
  )

BFromInt(n) ==
  IF n = 0 THEN <<>>
  ELSE IF n < Base THEN <<n>>
  ELSE IF n < Base * Base THEN <<n % Base, n \div Base>>
  ELSE <<n % Base, (n \div Base) % Base, n \div (Base * Base)>>

\* the most significant limb in which a and b of equal length differ
TopDifference(a, b) ==
  CASE Forced(a) /\ Forced(b) -> (
    CHOOSE i \in 1..Len(a) : a[i] # b[i] /\ \A j \in (i + 1)..Len(a) : a[j] = b[j]
  )

BCmp(a, b) ==
  CASE Forced(a) /\ Forced(b) -> (
    IF Len(a) < Len(b) THEN -1
    ELSE IF Len(a) > Len(b) THEN 1
    ELSE IF a = b THEN 0
    ELSE IF a[TopDifference(a, b)] < b[TopDifference(a, b)] THEN -1
    ELSE 1
  )

\* the carry into limb i of a + b: some lower limb overflows and every limb
\* between passes the carry on
Carry(a, b, i) ==
  CASE Forced(a) /\ Forced(b) /\ Forced(i) -> (
    \E j \in 1..(i - 1) :
      /\ Limb(a, j) + Limb(b, j) >= Base
      /\ \A k \in (j + 1)..(i - 1) : Limb(a, k) + Limb(b, k) = Base - 1
  )

AddLimbs(a, b, n) ==
  CASE Forced(a) /\ Forced(b) /\ Forced(n) -> (
    [i \in 1..n |-> (Limb(a, i) + Limb(b, i) + (IF Carry(a, b, i) THEN 1 ELSE 0)) % Base]
      \o (IF Carry(a, b, n + 1) THEN <<1>> ELSE <<>>)
  )

BAdd(a, b) ==
  CASE Forced(a) /\ Forced(b) -> (
    AddLimbs(a, b, IF Len(a) < Len(b) THEN Len(b) ELSE Len(a))
  )

\* the borrow from limb i of a - b
Borrow(a, b, i) ==
  CASE Forced(a) /\ Forced(b) /\ Forced(i) -> (
    \E j \in 1..(i - 1) :
      /\ a[j] < Limb(b, j)
      /\ \A k \in (j + 1)..(i - 1) : a[k] <= Limb(b, k)
  )

\* a - b for a >= b
BSub(a, b) ==
  CASE Forced(a) /\ Forced(b) -> (
    BNorm([i \in 1..Len(a) |->
             (a[i] - Limb(b, i) - (IF Borrow(a, b, i) THEN 1 ELSE 0) + Base) % Base])
  )

\* a * k for 0 <= k < Base: the low halves of the limb products plus the high
\* halves one limb up
BMulSmall(a, k) ==
  CASE Forced(a) /\ Forced(k) -> (
    IF k = 0 \/ a = <<>> THEN <<>>
    ELSE BNorm(BAdd([i \in 1..Len(a) |-> (a[i] * k) % Base],
                    <<0>> \o [i \in 1..Len(a) |-> (a[i] * k) \div Base]))
  )

ShiftLimbs(a, n) ==
  CASE Forced(a) /\ Forced(n) -> (
    IF a = <<>> THEN <<>> ELSE [i \in 1..n |-> 0] \o a
  )

\* a * (the limbs of b above i) is in acc
RECURSIVE BMulLimbs(_, _, _, _)
BMulLimbs(a, b, i, acc) ==
  IF i = 0 \/ Len(acc) < 0 THEN acc
  ELSE BMulLimbs(a, b, i - 1, BAdd(BMulSmall(a, b[i]), ShiftLimbs(acc, 1)))

BMul(a, b) ==
  CASE Forced(a) /\ Forced(b) -> (
    IF b = <<>> \/ a = <<>> THEN <<>>
    ELSE IF Len(a) < Len(b) THEN BMulLimbs(b, a, Len(a), <<>>)
    ELSE BMulLimbs(a, b, Len(b), <<>>)
  )

\* short division, the limbs i..1 of a still to bring down
RECURSIVE BDivSmallR(_, _, _, _, _)
BDivSmallR(a, k, i, r, quo) ==
  IF i = 0 \/ r < 0 \/ Len(quo) < 0 THEN [q |-> BNorm(quo), r |-> r]
  ELSE BDivSmallR(a, k, i - 1, (r * Base + a[i]) % k, <<(r * Base + a[i]) \div k>> \o quo)

\* quotient and remainder of a by 0 < k < Base
BDivSmall(a, k) ==
  CASE Forced(a) /\ Forced(k) -> (
    BDivSmallR(a, k, Len(a), 0, <<>>)
  )

\* the number of bits of a limb
BitLenSmall(x) ==
  CASE Forced(x) -> (
    CHOOSE n \in 0..LimbBits : x < 2 ^ n /\ (n = 0 \/ x >= 2 ^ (n - 1))
  )

BBitLen(a) ==
  CASE Forced(a) -> (
    IF a = <<>> THEN 0 ELSE LimbBits * (Len(a) - 1) + BitLenSmall(a[Len(a)])
  )

BBit(a, i) ==
  CASE Forced(a) /\ Forced(i) -> (
    (Limb(a, i \div LimbBits + 1) \div (2 ^ (i % LimbBits))) % 2
  )

BIsOdd(a) ==
  CASE Forced(a) -> (
    a # <<>> /\ a[1] % 2 = 1
  )

\* a * 2^t
BShl(a, t) ==
  CASE Forced(a) /\ Forced(t) -> (
    ShiftLimbs(BMulSmall(a, 2 ^ (t % LimbBits)), t \div LimbBits)
  )

\* floor(a / 2^t)
BShr(a, t) ==
  CASE Forced(a) /\ Forced(t) -> (
    LET n == t \div LimbBits
    IN  BDivSmall(IF n < Len(a) THEN SubSeq(a, n + 1, Len(a)) ELSE <<>>,
                  2 ^ (t % LimbBits)).q
  )

\* whether any of the t low bits of a is set
BLowBits(a, t) ==
  CASE Forced(a) /\ Forced(t) -> (
    \/ Limb(a, t \div LimbBits + 1) % (2 ^ (t % LimbBits)) # 0
    \/ \E i \in 1..Len(a) : i <= t \div LimbBits /\ a[i] # 0
  )

\* One step of long division by v, whose top limb is at least Base / 2, of
\* rem2 < v * Base: the quotient limb is at most 2 below the estimate that the
\* leading limbs give.
BQuotientLimb(v, rem2, est) ==
  CASE Forced(v) /\ Forced(rem2) /\ Forced(est) -> (
    CHOOSE d \in (IF est >= Base THEN {Base - 3, Base - 2, Base - 1}
                  ELSE {est - 2, est - 1, est}) :
      /\ d >= 0
      /\ BCmp(BMulSmall(v, d), rem2) <= 0
      /\ (d = Base - 1 \/ BCmp(BMulSmall(v, d + 1), rem2) > 0)
  )

\* long division, the limbs i..1 of u still to bring down
RECURSIVE BDivLimbs(_, _, _, _, _)
BDivLimbs(u, v, i, quo, rem) ==
  IF i = 0 \/ Len(quo) < 0 \/ Len(rem) < 0 THEN [q |-> BNorm(quo), r |-> rem]
  ELSE LET rem2 == IF rem = <<>> /\ u[i] = 0 THEN <<>> ELSE <<u[i]>> \o rem
           d    == BQuotientLimb(v, rem2,
                     (Limb(rem2, Len(v) + 1) * Base + Limb(rem2, Len(v))) \div v[Len(v)])
       IN  BDivLimbs(u, v, i - 1, <<d>> \o quo, BSub(rem2, BMulSmall(v, d)))

BDivNorm(u, v) ==
  CASE Forced(u) /\ Forced(v) -> (
    BDivLimbs(u, v, Len(u), <<>>, <<>>)
  )

BUnshift(d, k) ==
  CASE Forced(d) /\ Forced(k) -> (
    [q |-> d.q, r |-> BShr(d.r, k)]
  )

\* quotient and remainder of p by q > 0: both are shifted so that the top limb
\* of the divisor has its high bit set
BDivMod(p, q) ==
  CASE Forced(p) /\ Forced(q) -> (
    BUnshift(BDivNorm(BShl(p, LimbBits - BitLenSmall(q[Len(q)])),
                      BShl(q, LimbBits - BitLenSmall(q[Len(q)]))),
             LimbBits - BitLenSmall(q[Len(q)]))
  )

RECURSIVE BPow(_, _)
BPow(k, n) ==
  IF n = 0 THEN <<1>>
  ELSE LET h == BPow(k, n \div 2)
       IN  IF n % 2 = 0 THEN BMul(h, h) ELSE BMulSmall(BMul(h, h), k)

Pow10(n) == BPow(10, n)

\* the value of a BigNat that is known to fit the checker's integers
RECURSIVE BToInt(_)
BToInt(a) == IF a = <<>> THEN 0 ELSE Head(a) + Base * BToInt(Tail(a))

(***************************************************************************)
(* JavaScript Number values (IEEE-754 binary64, round to nearest, ties to   *)
(* even).  A finite value is (-1)^neg * m * 2^e with m odd or zero.         *)
(***************************************************************************)
MantBits == 53

MaxBinExp == 1024

Zero(neg) == [k |-> "fin", neg |-> neg, m |-> <<>>, e |-> 0]

NaN == [k |-> "nan", neg |-> FALSE, m |-> <<>>, e |-> 0]

Inf(neg) == [k |-> "inf", neg |-> neg, m |-> <<>>, e |-> 0]

IsNaN(x) == x.k = "nan"

IsFinite(x) == x.k = "fin"

IsZero(x) == x.k = "fin" /\ x.m = <<>>

\* the number of zero limbs below the lowest limb of a that is not zero
LowZeroLimbs(a, i) ==
  CASE Forced(a) /\ Forced(i) -> (
    (CHOOSE j \in i..Len(a) : a[j] # 0 /\ \A k \in i..(j - 1) : a[k] = 0) - 1
  )

\* the number of zero bits below the lowest set bit of a limb
TrailingZerosSmall(x) ==
  CASE Forced(x) -> (
    CHOOSE t \in 0..LimbBits : x % (2 ^ t) = 0 /\ (x \div (2 ^ t)) % 2 = 1
  )

\* the canonical form of (-1)^neg * M * 2^E
MkFin(neg, M, E) ==
  CASE Forced(neg) /\ Forced(M) /\ Forced(E) -> (
    IF M = <<>> THEN Zero(neg)
    ELSE LET z == LowZeroLimbs(M, 1)
             t == TrailingZerosSmall(M[z + 1])
         IN  [k |-> "fin", neg |-> neg,
              m |-> BDivSmall(SubSeq(M, z + 1, Len(M)), 2 ^ t).q,
              e |-> E + LimbBits * z + t]
  )

\* (-1)^neg * R * 2^E as a double, R of at most MantBits bits
RoundFinish(neg, R, E) ==
  CASE Forced(neg) /\ Forced(R) /\ Forced(E) -> (
    IF BBitLen(R) + E > MaxBinExp THEN Inf(neg) ELSE MkFin(neg, R, E)
  )

\* t: the number of low bits of M that do not fit the mantissa
RoundBits(neg, M, E, sticky, t) ==
  CASE Forced(neg) /\ Forced(M) /\ Forced(E) /\ Forced(sticky) /\ Forced(t) -> (
    RoundFinish(neg,
                IF t <= 0 THEN M
                ELSE IF BBit(M, t - 1) = 1 /\ (BLowBits(M, t - 1) \/ sticky \/ BBit(M, t) = 1)
                THEN BAdd(BShr(M, t), <<1>>)
                ELSE BShr(M, t),
                IF t <= 0 THEN E ELSE E + t)
  )

\* (-1)^neg * (M + f) * 2^E rounded to a double, where 0 <= f < 1 and
\* sticky says f > 0 (M then carries at least MantBits + 2 bits)
RoundD(neg, M, E, sticky) ==
  CASE Forced(neg) /\ Forced(M) /\ Forced(E) /\ Forced(sticky) -> (
    RoundBits(neg, M, E, sticky, BBitLen(M) - MantBits)
  )

\* d is the quotient and remainder of P * 2^s by Q
RoundQuotient(neg, d, E, s) ==
  CASE Forced(neg) /\ Forced(d) /\ Forced(E) /\ Forced(s) -> (
    RoundD(neg, d.q, E - s, d.r # <<>>)
  )

\* (-1)^neg * (P / Q) * 2^E rounded to a double, P > 0, Q > 0
RoundQ(neg, P, Q, E) ==
  CASE Forced(neg) /\ Forced(P) /\ Forced(Q) /\ Forced(E) -> (
    LET want == MantBits + 2 + BBitLen(Q) - BBitLen(P)
        s    == IF want > 0 THEN want ELSE 0
    IN  RoundQuotient(neg, BDivMod(BShl(P, s), Q), E, s)
  )

DNeg(x) == IF x.k = "nan" THEN x ELSE [x EXCEPT !.neg = ~x.neg]

\* x * y
DMul(x, y) ==
  IF x.k = "nan" \/ y.k = "nan" THEN NaN
  ELSE IF x.k = "inf" \/ y.k = "inf"
  THEN (IF IsZero(x) \/ IsZero(y) THEN NaN ELSE Inf(x.neg # y.neg))
  ELSE RoundD(x.neg # y.neg, BMul(x.m, y.m), x.e + y.e, FALSE)

\* the exact sum of (-1)^xneg * X and (-1)^yneg * Y
SignedSum(xneg, X, yneg, Y) ==
  CASE Forced(xneg) /\ Forced(X) /\ Forced(yneg) /\ Forced(Y) -> (
    IF xneg = yneg THEN [neg |-> xneg, M |-> BAdd(X, Y)]
    ELSE IF BCmp(X, Y) = 0 THEN [neg |-> FALSE, M |-> <<>>]
    ELSE IF BCmp(X, Y) > 0 THEN [neg |-> xneg, M |-> BSub(X, Y)]
    ELSE [neg |-> yneg, M |-> BSub(Y, X)]
  )

RoundSum(s, E) ==
  CASE Forced(s) /\ Forced(E) -> (
    IF s.M = <<>> THEN Zero(FALSE) ELSE RoundD(s.neg, s.M, E, FALSE)
  )

\* x + y
DAdd(x, y) ==
  IF x.k = "nan" \/ y.k = "nan" THEN NaN
  ELSE IF x.k = "inf"
  THEN (IF y.k = "inf" /\ y.neg # x.neg THEN NaN ELSE x)
  ELSE IF y.k = "inf" THEN y
  ELSE IF IsZero(x) /\ IsZero(y) THEN Zero(x.neg /\ y.neg)
  ELSE IF IsZero(x) THEN y
  ELSE IF IsZero(y) THEN x
  ELSE LET e0 == IF x.e < y.e THEN x.e ELSE y.e
       IN  RoundSum(SignedSum(x.neg, BShl(x.m, x.e - e0), y.neg, BShl(y.m, y.e - e0)), e0)

\* x - y
DSub(x, y) == DAdd(x, DNeg(y))

\* x / y
DDiv(x, y) ==
  IF x.k = "nan" \/ y.k = "nan" THEN NaN
  ELSE IF x.k = "inf"
  THEN (IF y.k = "inf" THEN NaN ELSE Inf(x.neg # y.neg))
  ELSE IF y.k = "inf" THEN Zero(x.neg # y.neg)
  ELSE IF IsZero(y)
  THEN (IF IsZero(x) THEN NaN ELSE Inf(x.neg # y.neg))
  ELSE IF IsZero(x) THEN Zero(x.neg # y.neg)
  ELSE RoundQ(x.neg # y.neg, x.m, y.m, x.e - y.e)

\* x === y
DEq(x, y) ==
  /\ x.k # "nan"
  /\ y.k # "nan"
  /\ (x = y \/ (IsZero(x) /\ IsZero(y)))

IsNegative(d) == d.neg /\ ~IsZero(d) /\ d.k # "nan"

\* x < y
DLess(x, y) ==
  /\ x.k # "nan"
  /\ y.k # "nan"
  /\ ~DEq(x, y)
  /\ IsNegative(DSub(x, y))

\* Math.max(x, y)
MathMax(x, y) ==
  IF x.k = "nan" \/ y.k = "nan" THEN NaN
  ELSE IF DLess(x, y) THEN y ELSE x

\* Math.abs(x)
MathAbs(x) == IF x.k = "nan" THEN x ELSE [x EXCEPT !.neg = FALSE]

\* Math.round(x): the nearest integer, a tie goes towards +Infinity
MathRound(x) ==
  CASE Forced(x) -> (
    IF x.k # "fin" \/ x.e >= 0 THEN x
    ELSE LET t  == 0 - x.e
             up == BBit(x.m, t - 1) = 1 /\ (~x.neg \/ BLowBits(x.m, t - 1))
         IN  MkFin(x.neg, IF up THEN BAdd(BShr(x.m, t), <<1>>) ELSE BShr(x.m, t), 0)
  )

\* Math.floor(x)
MathFloor(x) ==
  CASE Forced(x) -> (
    IF x.k # "fin" \/ x.e >= 0 THEN x
    ELSE MkFin(x.neg,
               IF x.neg THEN BAdd(BShr(x.m, 0 - x.e), <<1>>) ELSE BShr(x.m, 0 - x.e), 0)
  )

\* the double nearest to (-1)^neg * N * 10^p
DFromDec(neg, N, p) ==
  CASE Forced(neg) /\ Forced(N) /\ Forced(p) -> (
    IF N = <<>> THEN Zero(neg)
    ELSE RoundQ(neg, IF p >= 0 THEN BMul(N, Pow10(p)) ELSE N,
                IF p >= 0 THEN <<1>> ELSE Pow10(0 - p), 0)
  )

\* a small integer as a Number
DInt(n) == MkFin(n < 0, BFromInt(IF n < 0 THEN 0 - n ELSE n), 0)

\* Math.pow(10, n) for an integer n >= 0
MathPow10(n) == DFromDec(FALSE, <<1>>, n)

(***************************************************************************)
(* Strings are sequences of one-character strings.                          *)
(***************************************************************************)
DigitChars == <<"0", "1", "2", "3", "4", "5", "6", "7", "8", "9">>

IsDigit(c) == \E d \in 1..10 : DigitChars[d] = c

DigitVal(c) == (CHOOSE d \in 1..10 : DigitChars[d] = c) - 1

DigitChar(d) == DigitChars[d + 1]

Dig4(x) == <<x \div 1000, (x \div 100) % 10, (x \div 10) % 10, x % 10>>

\* the decimal digits of N in groups of four, before those in acc
RECURSIVE BDigits4(_, _)
BDigits4Group(d, acc) == BDigits4(d.q, Dig4(d.r) \o acc)

BDigits4(N, acc) ==
  IF N = <<>> \/ Len(acc) < 0 THEN acc ELSE BDigits4Group(BDivSmall(N, 10000), acc)

StripLeadingZeros(ds) ==
  CASE Forced(ds) -> (
    IF \A i \in 1..Len(ds) : ds[i] = 0 THEN <<>>
    ELSE SubSeq(ds, CHOOSE i \in 1..Len(ds) : ds[i] # 0 /\ \A j \in 1..(i - 1) : ds[j] = 0,
                Len(ds))
  )

StripTrailingZeros(ds) == BNorm(ds)

\* the decimal digits of N, most significant first (none for zero)
BDigits(N) ==
  CASE Forced(N) -> (
    StripLeadingZeros(BDigits4(N, <<>>))
  )

RECURSIVE BFromDigitsR(_, _, _)
BFromDigitsR(ds, i, acc) ==
  IF i > Len(ds) \/ Len(acc) < 0 THEN acc
  ELSE BFromDigitsR(ds, i + 1,
         BAdd(BMulSmall(acc, 10), BFromInt(ds[i])))

BFromDigits(ds) == BFromDigitsR(ds, 1, <<>>)

\* The exact decimal expansion of |x| for finite x # 0: the digits ds and the
\* position pt of the decimal point, |x| = 0.d1d2...dL * 10^pt
ExactDigits(x) ==
  CASE Forced(x) -> (
    LET point(ds) == [ds |-> ds, pt |-> Len(ds) - (IF x.e >= 0 THEN 0 ELSE 0 - x.e)]
    IN  point(BDigits(IF x.e >= 0 THEN BShl(x.m, x.e) ELSE BMul(x.m, BPow(5, 0 - x.e))))
  )

MaxSigDigits == 17

\* The n-digit decimals next to |x|: the first n digits of the exact expansion
\* and that number plus one, the nearer of the two first
Candidates(ex, n) ==
  CASE Forced(ex) /\ Forced(n) -> (
    LET lo   == BFromDigits(SubSeq(ex.ds, 1, n))
        nxt  == ex.ds[n + 1]
        rest == \E i \in (n + 2)..Len(ex.ds) : ex.ds[i] # 0
    IN  IF nxt > 5 \/ (nxt = 5 /\ (rest \/ BIsOdd(lo)))
        THEN <<BAdd(lo, <<1>>), lo>> ELSE <<lo, BAdd(lo, <<1>>)>>
  )

\* those of the candidates c that read back as |x|
ReadBack(x, ex, n, c) ==
  CASE Forced(x) /\ Forced(ex) /\ Forced(n) /\ Forced(c) -> (
    {N \in {c[1], c[2]} :
       N # <<>> /\ DFromDec(FALSE, N, ex.pt - n) = [x EXCEPT !.neg = FALSE]}
  )

\* n digits are enough to write |x|
Enough(x, ex, n) ==
  CASE Forced(x) /\ Forced(ex) /\ Forced(n) -> (
    n >= Len(ex.ds) \/ n >= MaxSigDigits \/ ReadBack(x, ex, n, Candidates(ex, n)) # {}
  )

\* Number::toString, step 5: the least number of digits that is enough (when
\* k digits are enough so are k + 1: the nearer (k + 1)-digit neighbour of |x|
\* is at least as near as the k-digit one)
ShortestLength(x, ex, n) ==
  CASE Forced(x) /\ Forced(ex) /\ Forced(n) -> (
    CHOOSE k \in n..MaxSigDigits :
      Enough(x, ex, k) /\ (k = n \/ ~Enough(x, ex, k - 1))
  )

\* the digits of the candidate to print: the nearer one unless only the
\* farther one reads back
Nearest(c, ok) ==
  CASE Forced(c) /\ Forced(ok) -> (
    BDigits(IF c[1] \in ok \/ c[2] \notin ok THEN c[1] ELSE c[2])
  )

PrintedDigits(x, ex, n, c) ==
  CASE Forced(x) /\ Forced(ex) /\ Forced(n) /\ Forced(c) -> (
    LET digits(pd) == [ds |-> StripTrailingZeros(pd), pt |-> ex.pt - n + Len(pd)]
    IN  digits(Nearest(c, ReadBack(x, ex, n, c)))
  )

\* the digits of |x| written with n digits
DigitsOfLength(x, ex, n) ==
  CASE Forced(x) /\ Forced(ex) /\ Forced(n) -> (
    IF n >= Len(ex.ds) THEN [ds |-> StripTrailingZeros(ex.ds), pt |-> ex.pt]
    ELSE PrintedDigits(x, ex, n, Candidates(ex, n))
  )

\* the shortest digit string that reads back as |x|
ShortestFrom(x, ex) ==
  CASE Forced(x) /\ Forced(ex) -> (
    DigitsOfLength(x, ex, ShortestLength(x, ex, 1))
  )

ShortestDigits(x) == ShortestFrom(x, ExactDigits(x))

DigitString(ds) ==
  CASE Forced(ds) -> (
    [i \in 1..Len(ds) |-> DigitChar(ds[i])]
  )

Zeros(n) == [i \in 1..n |-> "0"]

\* the decimal digits of a small integer n >= 0
RECURSIVE IntDigits(_)
IntDigits(n) == IF n < 10 THEN <<n>> ELSE IntDigits(n \div 10) \o <<n % 10>>

\* Number.prototype.toString (radix 10)
NumToString(x) ==
  IF x.k = "nan" THEN <<"N", "a", "N">>
  ELSE IF x.k = "inf"
  THEN (IF x.neg THEN <<"-">> ELSE <<>>) \o <<"I", "n", "f", "i", "n", "i", "t", "y">>
  ELSE IF x.m = <<>> THEN <<"0">>
  ELSE LET exponent(ex) == (IF ex < 0 THEN <<"-">> ELSE <<"+">>) \o
                             DigitString(IntDigits(IF ex < 0 THEN 0 - ex ELSE ex))
           body(d, k, n) ==
             IF k <= n /\ n <= 21 THEN d \o Zeros(n - k)
             ELSE IF 0 < n /\ n <= 21
             THEN SubSeq(d, 1, n) \o <<".">> \o SubSeq(d, n + 1, k)
             ELSE IF -6 < n /\ n <= 0
             THEN <<"0", ".">> \o Zeros(0 - n) \o d
             ELSE IF k = 1 THEN d \o <<"e">> \o exponent(n - 1)
             ELSE <<d[1], ".">> \o SubSeq(d, 2, k) \o <<"e">> \o exponent(n - 1)
           text(sd) == body(DigitString(sd.ds), Len(sd.ds), sd.pt)
       IN  (IF x.neg THEN <<"-">> ELSE <<>>) \o text(ShortestDigits(x))

At(s, i) == IF 1 <= i /\ i <= Len(s) THEN s[i] ELSE ""

\* the index just after the run of digits of s that starts at i
DigitsEnd(s, i) ==
  CASE Forced(s) /\ Forced(i) -> (
    IF i > Len(s) THEN i
    ELSE CHOOSE j \in i..(Len(s) + 1) :
      ~IsDigit(At(s, j)) /\ \A k \in i..(j - 1) : IsDigit(At(s, k))
  )

SkipSpaces(s, i) ==
  CASE Forced(s) /\ Forced(i) -> (
    IF i > Len(s) THEN i
    ELSE CHOOSE j \in i..(Len(s) + 1) :
      At(s, j) # " " /\ \A k \in i..(j - 1) : At(s, k) = " "
  )

DigitVals(s) == [i \in 1..Len(s) |-> DigitVal(s[i])]

RECURSIVE SmallInt(_)
SmallInt(ds) ==
  IF ds = <<>> THEN 0 ELSE 10 * SmallInt(SubSeq(ds, 1, Len(ds) - 1)) + ds[Len(ds)]

StartsWithAt(s, i, w) ==
  i + Len(w) - 1 <= Len(s) /\ SubSeq(s, i, i + Len(w) - 1) = w

\* the value of the literal parseFloat has delimited: neg says a leading "-",
\* i1 is where the digits start, ip and fp are the integer and fraction
\* digits, ex is the exponent
LiteralValue(s, lit) ==
  CASE Forced(s) /\ Forced(lit) -> (
    IF StartsWithAt(s, lit.i1, <<"I", "n", "f", "i", "n", "i", "t", "y">>) THEN Inf(lit.neg)
    ELSE IF lit.ip = <<>> /\ lit.fp = <<>> THEN NaN
    ELSE DFromDec(lit.neg, BFromDigits(StripLeadingZeros(DigitVals(lit.ip \o lit.fp))),
                  lit.ex - Len(lit.fp))
  )

\* parseFloat(s): the longest prefix of s (after white space) that is a
\* decimal literal, NaN if there is none
ParseFloat(s) ==
  LET magnitude(minus, n) == IF minus THEN 0 - n ELSE n
      exponentDigits(i3, j, j2) ==
        IF j2 > j
        THEN magnitude(At(s, i3 + 1) = "-", SmallInt(DigitVals(SubSeq(s, j, j2 - 1))))
        ELSE 0
      exponentFrom(i3, j) == exponentDigits(i3, j, DigitsEnd(s, j))
      exponent(i3) ==
        IF At(s, i3) \in {"e", "E"}
        THEN exponentFrom(i3, IF At(s, i3 + 1) \in {"-", "+"} THEN i3 + 2 ELSE i3 + 1)
        ELSE 0
      fraction(neg, i1, i2, dot, i3) ==
        [neg |-> neg, i1 |-> i1, ip |-> SubSeq(s, i1, i2 - 1),
         fp |-> IF dot THEN SubSeq(s, i2 + 1, i3 - 1) ELSE <<>>, ex |-> exponent(i3)]
      point(neg, i1, i2, dot) ==
        fraction(neg, i1, i2, dot, IF dot THEN DigitsEnd(s, i2 + 1) ELSE i2)
      integer(neg, i1, i2) ==
        point(neg, i1, i2, At(s, i2) = "." /\ (i2 > i1 \/ IsDigit(At(s, i2 + 1))))
      sign(neg, i1) == integer(neg, i1, DigitsEnd(s, i1))
      start(i0) == sign(At(s, i0) = "-", IF At(s, i0) \in {"-", "+"} THEN i0 + 1 ELSE i0)
  IN  LiteralValue(s, start(SkipSpaces(s, 1)))

(***************************************************************************)
(* Results of operations: a returned value or a thrown error.  Null is the  *)
(* JavaScript value null.                                                   *)
(***************************************************************************)
Null == [k |-> "null", neg |-> FALSE, m |-> <<>>, e |-> 0]

Return(v) == [ok |-> TRUE, val |-> v, err |-> "none"]

Throw(e) == [ok |-> FALSE, val |-> Null, err |-> e]

\* str.indexOf(c, from) with 1-based positions, 0 when c does not occur
IndexOfFrom(s, c, i) ==
  CASE Forced(s) /\ Forced(c) /\ Forced(i) -> (
    IF \A j \in i..Len(s) : s[j] # c THEN 0
    ELSE CHOOSE j \in i..Len(s) : s[j] = c /\ \A k \in i..(j - 1) : s[k] # c
  )

\* str.lastIndexOf(c) with 1-based positions, 0 when c does not occur
LastIndexBefore(s, c, i) ==
  CASE Forced(s) /\ Forced(c) /\ Forced(i) -> (
    IF \A j \in 1..i : s[j] # c THEN 0
    ELSE CHOOSE j \in 1..i : s[j] = c /\ \A k \in (j + 1)..i : s[k] # c
  )

LastIndexOf(s, c) == LastIndexBefore(s, c, Len(s))

(***************************************************************************)
(* precision-calculator.js: the scaled-integer arithmetic.                  *)
(***************************************************************************)
\* the digits after the first "." of num.toString()
getDecimalPlaces(num) ==
  CASE Forced(num) -> (
    LET after(str, dot) == IF dot = 0 THEN 0 ELSE Len(str) - dot
        places(str) == CASE Forced(str) -> after(str, IndexOfFrom(str, ".", 1))
    IN  places(NumToString(num))
  )

\* {value: Math.round(num * factor), factor}
scaleBy(num, factor) ==
  CASE Forced(num) /\ Forced(factor) -> (
    [value |-> MathRound(DMul(num, factor)), factor |-> factor]
  )

toInteger(num) == scaleBy(num, MathPow10(getDecimalPlaces(num)))

\* aValue and bValue: both integers brought to the larger factor
alignFactors(aInt, bInt, maxFactor) ==
  CASE Forced(aInt) /\ Forced(bInt) /\ Forced(maxFactor) -> (
    [aValue    |-> DMul(aInt.value, DDiv(maxFactor, aInt.factor)),
     bValue    |-> DMul(bInt.value, DDiv(maxFactor, bInt.factor)),
     maxFactor |-> maxFactor]
  )

toMaxFactor(aInt, bInt) ==
  CASE Forced(aInt) /\ Forced(bInt) -> (
    alignFactors(aInt, bInt, MathMax(aInt.factor, bInt.factor))
  )

sumOf(v) ==
  CASE Forced(v) -> (
    DDiv(DAdd(v.aValue, v.bValue), v.maxFactor)
  )

differenceOf(v) ==
  CASE Forced(v) -> (
    DDiv(DSub(v.aValue, v.bValue), v.maxFactor)
  )

productOf(aInt, bInt) ==
  CASE Forced(aInt) /\ Forced(bInt) -> (
    DDiv(DMul(aInt.value, bInt.value), DMul(aInt.factor, bInt.factor))
  )

quotientOf(aInt, bInt) ==
  CASE Forced(aInt) /\ Forced(bInt) -> (
    DMul(DDiv(aInt.value, bInt.value), DDiv(bInt.factor, aInt.factor))
  )

add(a, b) == sumOf(toMaxFactor(toInteger(a), toInteger(b)))

subtract(a, b) == differenceOf(toMaxFactor(toInteger(a), toInteger(b)))

multiply(a, b) == productOf(toInteger(a), toInteger(b))

\* the quotient once the divisor is known not to be zero
divideValues(a, b) == quotientOf(toInteger(a), toInteger(b))

\* b === 0 holds for +0 and for -0
divide(a, b) ==
  IF DEq(b, Zero(FALSE)) THEN Throw("DivisionByZero")
  ELSE Return(divideValues(a, b))

(***************************************************************************)
(* mathfix-core.js: the same primitives over a common decimal precision.    *)
(***************************************************************************)
mfToInteger(num, precision) == MathRound(DMul(num, MathPow10(precision)))

MaxNat(x, y) == IF x < y THEN y ELSE x

\* the four operations once the precision is known
mfAddAt(a, b, precision) ==
  DDiv(DAdd(mfToInteger(a, precision), mfToInteger(b, precision)), MathPow10(precision))

mfSubtractAt(a, b, precision) ==
  DDiv(DSub(mfToInteger(a, precision), mfToInteger(b, precision)), MathPow10(precision))

mfMultiplyAt(a, b, precisionA, precisionB) ==
  DDiv(DMul(mfToInteger(a, precisionA), mfToInteger(b, precisionB)),
       MathPow10(precisionA + precisionB))

mfDivideAt(a, b, precision) ==
  DDiv(mfToInteger(a, precision), mfToInteger(b, precision))

mfAdd(a, b) == mfAddAt(a, b, MaxNat(getDecimalPlaces(a), getDecimalPlaces(b)))

mfSubtract(a, b) == mfSubtractAt(a, b, MaxNat(getDecimalPlaces(a), getDecimalPlaces(b)))

mfMultiply(a, b) == mfMultiplyAt(a, b, getDecimalPlaces(a), getDecimalPlaces(b))

mfDivide(a, b) ==
  IF DEq(b, Zero(FALSE)) THEN Throw("DivisionByZero")
  ELSE Return(mfDivideAt(a, b, MaxNat(getDecimalPlaces(a), getDecimalPlaces(b))))

(***************************************************************************)
(* Number.prototype.toFixed and Number(string).                             *)
(***************************************************************************)
\* the integer nearest to |x| * 10^p, a tie going to the larger one
ScaledNearest(x, p) ==
  IF x.e >= 0 THEN BMul(BShl(x.m, x.e), Pow10(p))
  ELSE BShr(BAdd(BShr(BMul(x.m, Pow10(p)), (0 - x.e) - 1), <<1>>), 1)

\* x.toFixed(p)
ToFixed(x, p) ==
  IF x.k # "fin" \/ (x.e >= 0 /\ BCmp(BShl(x.m, x.e), Pow10(21)) >= 0)
  THEN NumToString(x)
  ELSE LET body(pad, k) ==
             IF p = 0 THEN pad
             ELSE SubSeq(pad, 1, k) \o <<".">> \o SubSeq(pad, k + 1, Len(pad))
           point(pad) == body(pad, Len(pad) - p)
           padded(ds) == point(IF Len(ds) <= p THEN Zeros(p + 1 - Len(ds)) \o ds ELSE ds)
       IN  (IF x.neg /\ x.m # <<>> THEN <<"-">> ELSE <<>>)
             \o padded(DigitString(BDigits(ScaledNearest(x, p))))

\* Number(str) for the strings toFixed produces
NumberOf(str) == ParseFloat(str)

(***************************************************************************)
(* src/tests/enhanced-test.js: the calculator with configurable error       *)
(* handling.  errorMode is the value of 'errorHandling.mode'.               *)
(***************************************************************************)
ErrorHandlingModes == {"throw", "null", "nan", "inf", "log_throw", "log_return"}

handleError(error, errorMode) ==
  CASE errorMode = "throw"      -> Throw(error)
    [] errorMode = "null"       -> Return(Null)
    [] errorMode = "nan"        -> Return(NaN)
    [] errorMode = "inf"        -> Return(Inf(FALSE))
    [] errorMode = "log_throw"  -> Throw(error)
    [] errorMode = "log_return" -> Return(Null)
    [] OTHER                    -> Throw(error)

\* divide(a, b, precision) of the enhanced calculator; the result cache keeps
\* only values this pure computation would produce again
enhancedDivide(a, b, actualPrecision, errorMode) ==
  IF ~IsFinite(a) \/ ~IsFinite(b) THEN handleError("InvalidInput", errorMode)
  ELSE IF DEq(b, Zero(FALSE)) THEN handleError("DivisionByZero", errorMode)
  ELSE Return(NumberOf(ToFixed(DDiv(a, b), actualPrecision)))

(***************************************************************************)
(* Exact decimal arithmetic, the yardstick for the scaled-integer            *)
(* primitives: a decimal is (-1)^neg * N / 10^s.                            *)
(***************************************************************************)
\* the decimal a non-exponential canonical string denotes
DecimalOf(x) ==
  LET digits(neg, body, dot) ==
        [neg |-> neg,
         N |-> BFromDigits(StripLeadingZeros(DigitVals(
                 IF dot = 0 THEN body
                 ELSE SubSeq(body, 1, dot - 1) \o SubSeq(body, dot + 1, Len(body))))),
         s |-> IF dot = 0 THEN 0 ELSE Len(body) - dot]
      unsigned(neg, body) == digits(neg, body, IndexOfFrom(body, ".", 1))
      signed(str) == unsigned(At(str, 1) = "-", IF At(str, 1) = "-" THEN Tail(str) ELSE str)
  IN  signed(NumToString(x))

NonExponential(x) == IsFinite(x) /\ IndexOfFrom(NumToString(x), "e", 1) = 0

ExactSum(x, y) ==
  LET s == MaxNat(x.s, y.s)
      signed(X, Y) ==
        IF x.neg = y.neg THEN [neg |-> x.neg, N |-> BAdd(X, Y), s |-> s]
        ELSE IF BCmp(X, Y) >= 0 THEN [neg |-> x.neg, N |-> BSub(X, Y), s |-> s]
        ELSE [neg |-> y.neg, N |-> BSub(Y, X), s |-> s]
  IN  signed(BMul(x.N, Pow10(s - x.s)), BMul(y.N, Pow10(s - y.s)))

ExactDifference(x, y) == ExactSum(x, [y EXCEPT !.neg = ~y.neg])

ExactProduct(x, y) == [neg |-> x.neg # y.neg, N |-> BMul(x.N, y.N), s |-> x.s + y.s]

\* the Number nearest to a decimal
NearestNumber(d) == DFromDec(d.neg, d.N, 0 - d.s)

(***************************************************************************)
(* precision-calculator.js: the expression evaluator.  It rewrites the      *)
(* expression string until a single numeral is left.                        *)
(***************************************************************************)
\* expression.replace(/\s+/g, '')
RECURSIVE RemoveSpaces(_)
RemoveSpaces(s) ==
  IF s = <<>> THEN <<>>
  ELSE IF Head(s) = " " THEN RemoveSpaces(Tail(s))
  ELSE <<Head(s)>> \o RemoveSpaces(Tail(s))

\* s.replace(/^-/, '(0-')
ReplaceLeadingMinus(s) ==
  IF At(s, 1) = "-" THEN <<"(", "0", "-">> \o Tail(s) ELSE s

\* s.replace(/([+\-*/\(])-/g, '$1(0-') from position i on: the matches are
\* taken left to right and do not overlap
RECURSIVE ReplaceOperatorMinus(_, _)
ReplaceOperatorMinus(s, i) ==
  IF i > Len(s) THEN <<>>
  ELSE IF s[i] \in {"+", "-", "*", "/", "("} /\ At(s, i + 1) = "-"
  THEN <<s[i], "(", "0", "-">> \o ReplaceOperatorMinus(s, i + 2)
  ELSE <<s[i]>> \o ReplaceOperatorMinus(s, i + 1)

\* (s.match(/\(0-/g) || []).length
CountZeroMinus(s) ==
  Cardinality({i \in 1..Len(s) : StartsWithAt(s, i, <<"(", "0", "-">>)})

\* the string calculate hands to evaluateExpression
cleanExpression(expression) ==
  LET stripped == RemoveSpaces(expression)
      negated  == ReplaceOperatorMinus(ReplaceLeadingMinus(stripped), 1)
      leftParens == CountZeroMinus(negated)
  IN  negated \o [i \in 1..leftParens |-> ")"]

\* /-?\d+(?:\.\d+)?/ anchored at i: the index after the numeral, 0 if s has no
\* numeral at i
NumeralEnd(s, i) ==
  LET j == IF At(s, i) = "-" THEN i + 1 ELSE i
      k == DigitsEnd(s, j)
  IN  IF k = j THEN 0
      ELSE IF At(s, k) = "." /\ IsDigit(At(s, k + 1)) THEN DigitsEnd(s, k + 2)
      ELSE k

\* /(-?\d+(?:\.\d+)?)\s*([ops])\s*(-?\d+(?:\.\d+)?)/ anchored at i
MatchAt(s, i, ops) ==
  LET aEnd   == NumeralEnd(s, i)
      opAt   == SkipSpaces(s, aEnd)
      bStart == SkipSpaces(s, opAt + 1)
      bEnd   == NumeralEnd(s, bStart)
  IN  IF aEnd = 0 \/ At(s, opAt) \notin ops \/ bEnd = 0
      THEN [found |-> FALSE, from |-> 0, to |-> 0, a |-> <<>>, operator |-> "", b |-> <<>>]
      ELSE [found |-> TRUE, from |-> i, to |-> bEnd,
            a |-> SubSeq(s, i, aEnd - 1), operator |-> s[opAt],
            b |-> SubSeq(s, bStart, bEnd - 1)]

\* regex.test(s): some position carries a match
RegexTest(s, ops) == \E i \in 1..Len(s) : MatchAt(s, i, ops).found

\* the match String.prototype.replace rewrites: the leftmost one
FirstMatch(s, ops) ==
  MatchAt(s, CHOOSE i \in 1..Len(s) :
               /\ MatchAt(s, i, ops).found
               /\ \A j \in 1..(i - 1) : ~MatchAt(s, j, ops).found, ops)

MulDivOps == {"*", "/"}

AddSubOps == {"+", "-"}

\* the callback of calculateMultiplyDivide / calculateAddSubtract
applyOperator(operator, numA, numB) ==
  CASE operator = "*" -> Return(multiply(numA, numB))
    [] operator = "/" -> divide(numA, numB)
    [] operator = "+" -> Return(add(numA, numB))
    [] operator = "-" -> Return(subtract(numA, numB))

\* the callback of calculateMultiplyDivide
multiplyOrDivide(operator, numA, numB) ==
  IF operator = "*" THEN Return(multiply(numA, numB)) ELSE divide(numA, numB)

\* the callback of calculateAddSubtract
addOrSubtract(operator, numA, numB) ==
  IF operator = "+" THEN Return(add(numA, numB)) ELSE Return(subtract(numA, numB))

\* a replace that keeps the first operand and the operator of the match
replaceSecondOperand(s, m, r) ==
  IF r.ok
  THEN [ok |-> TRUE, err |-> "none",
        expression |-> SubSeq(s, 1, m.from - 1) \o m.a \o <<m.operator>> \o NumToString(r.val)
                         \o SubSeq(s, m.to, Len(s))]
  ELSE [ok |-> FALSE, err |-> r.err, expression |-> s]

\* a replace that puts the match back
replaceByMatch(s, m, r) == [ok |-> TRUE, err |-> "none", expression |-> s]

\* expression.replace(regex, callback): the match m is replaced by the text
\* of the value r the callback returns (ok is FALSE if divide threw)
replaceMatch(s, m, r) ==
  IF r.ok
  THEN [ok |-> TRUE, err |-> "none",
        expression |-> SubSeq(s, 1, m.from - 1) \o NumToString(r.val) \o SubSeq(s, m.to, Len(s))]
  ELSE [ok |-> FALSE, err |-> r.err, expression |-> s]

\* one round of the while loop of calculateMultiplyDivide
multiplyDivideOnce(s, m) ==
  replaceMatch(s, m, multiplyOrDivide(m.operator, ParseFloat(m.a), ParseFloat(m.b)))

\* one round of the while loop of calculateAddSubtract
addSubtractOnce(s, m) ==
  replaceMatch(s, m, addOrSubtract(m.operator, ParseFloat(m.a), ParseFloat(m.b)))

(***************************************************************************)
(* calculate as a machine.  The stack holds one frame per active call of    *)
(* evaluateExpression; a frame keeps the expression as rewritten so far,    *)
(* the loop it is in and, while a nested call runs, the positions of the    *)
(* parenthesised group being resolved.                                      *)
(***************************************************************************)
Frame(expression) ==
  [expression |-> expression, phase |-> "parens",
   lastOpenParen |-> 0, firstCloseParen |-> 0]

Idle == [status |-> "idle", stack |-> <<>>, val |-> Null, err |-> "none", residue |-> <<>>]

\* calculate(expression) entered: the expression is cleaned and handed over
calculateStart(expression) ==
  [status |-> "running", stack |-> <<Frame(cleanExpression(expression))>>,
   val |-> Null, err |-> "none", residue |-> <<>>]

\* the catch of calculate rethrows with the message of the error it caught
Thrown(err) ==
  [status |-> "thrown", stack |-> <<>>, val |-> Null, err |-> err, residue |-> <<>>]

\* residue is the string the outermost call handed to parseFloat
Returned(val, residue) ==
  [status |-> "returned", stack |-> <<>>, val |-> val, err |-> "none", residue |-> residue]

Top(ev) == ev.stack[Len(ev.stack)]

\* what the innermost call of evaluateExpression does next
StepKind(ev) ==
  LET f    == Top(ev)
      open == LastIndexOf(f.expression, "(")
  IN  IF f.phase = "parens" /\ open # 0
      THEN (IF IndexOfFrom(f.expression, ")", open) = 0 THEN "mismatch" ELSE "group")
      ELSE IF f.phase \in {"parens", "muldiv"} /\ RegexTest(f.expression, MulDivOps)
      THEN "muldiv"
      ELSE IF RegexTest(f.expression, AddSubOps) THEN "addsub"
      ELSE "return"

\* while (expression.includes('(')): the innermost group is evaluated by a
\* nested call
enterGroup(ev) ==
  LET f                == Top(ev)
      lastOpenParen    == LastIndexOf(f.expression, "(")
      firstCloseParen  == IndexOfFrom(f.expression, ")", lastOpenParen)
      subExpression    == SubSeq(f.expression, lastOpenParen + 1, firstCloseParen - 1)
      caller           == [f EXCEPT !.lastOpenParen = lastOpenParen,
                                    !.firstCloseParen = firstCloseParen]
  IN  [ev EXCEPT !.stack = SubSeq(ev.stack, 1, Len(ev.stack) - 1)
                             \o <<caller, Frame(subExpression)>>]

\* the frame of the innermost call after one rewrite rw of its expression;
\* an error thrown by the callback ends calculate
afterRewrite(ev, phase, rw) ==
  IF rw.ok
  THEN [ev EXCEPT !.stack[Len(ev.stack)] =
                    [Top(ev) EXCEPT !.expression = rw.expression, !.phase = phase]]
  ELSE Thrown(rw.err)

\* one rewrite of calculateMultiplyDivide
multiplyDivideStep(ev) ==
  afterRewrite(ev, "muldiv",
               multiplyDivideOnce(Top(ev).expression, FirstMatch(Top(ev).expression, MulDivOps)))

\* one rewrite of calculateAddSubtract
addSubtractStep(ev) ==
  afterRewrite(ev, "addsub",
               addSubtractOnce(Top(ev).expression, FirstMatch(Top(ev).expression, AddSubOps)))

\* return parseFloat(expression): the outermost call ends calculate, a nested
\* one puts the text of its value in place of the group
returnStep(ev) ==
  LET f      == Top(ev)
      result == ParseFloat(f.expression)
      n      == Len(ev.stack)
      c      == ev.stack[n - 1]
  IN  IF n = 1 THEN Returned(result, f.expression)
      ELSE [ev EXCEPT !.stack = SubSeq(ev.stack, 1, n - 2) \o
              <<[c EXCEPT !.expression =
                   SubSeq(c.expression, 1, c.lastOpenParen - 1)
                     \o NumToString(result)
                     \o SubSeq(c.expression, c.firstCloseParen + 1, Len(c.expression))]>>]

\* the step the innermost call of evaluateExpression takes
Step(ev) ==
  CASE StepKind(ev) = "mismatch" -> Thrown("UnbalancedParentheses")
    [] StepKind(ev) = "group"    -> enterGroup(ev)
    [] StepKind(ev) = "muldiv"   -> multiplyDivideStep(ev)
    [] StepKind(ev) = "addsub"   -> addSubtractStep(ev)
    [] StepKind(ev) = "return"   -> returnStep(ev)

RECURSIVE Run(_)
Run(ev) == IF ev.status # "running" THEN ev ELSE Run(Step(ev))

Outcome(ev) == IF ev.status = "returned" THEN Return(ev.val) ELSE Throw(ev.err)

\* calculate(expression) of precision-calculator.js, run to its end
calculate(expression) == Outcome(Run(calculateStart(expression)))

(***************************************************************************)
(* Expressions read the standard way: numerals, unary and binary operators, *)
(* parentheses, * and / before + and -, each level from left to right.      *)
(* In mode "engine" this is how the JavaScript engine evaluates the string  *)
(* core-calculator.js hands to Function (strict mode, Number arithmetic).   *)
(* In mode "scaled" it is the reading the expression evaluator of           *)
(* precision-calculator.js is measured against, with the scaled-integer     *)
(* primitives as the arithmetic; mode "syntax" only decides whether the     *)
(* string is well formed (its arithmetic never fails).                      *)
(***************************************************************************)
BadToken == [t |-> "bad", c |-> "", v |-> NaN]

\* the index after the numeric literal that starts at i
LiteralEnd(s, i, mode) ==
  LET k == DigitsEnd(s, i)
  IN  IF At(s, k) = "." /\ (mode = "engine" \/ IsDigit(At(s, k + 1))) THEN DigitsEnd(s, k + 1)
      ELSE k

\* strict mode rejects a literal such as 08 or 00
NumToken(lexeme, mode) ==
  IF mode = "engine" /\ Len(lexeme) >= 2 /\ lexeme[1] = "0" /\ IsDigit(lexeme[2]) THEN BadToken
  ELSE [t |-> "num", c |-> "", v |-> ParseFloat(lexeme)]

RECURSIVE Tokenize(_, _, _)
Tokenize(s, i, mode) ==
  IF i > Len(s) THEN <<>>
  ELSE IF s[i] = " " THEN Tokenize(s, i + 1, mode)
  ELSE IF IsDigit(s[i]) \/ (mode = "engine" /\ s[i] = "." /\ IsDigit(At(s, i + 1)))
  THEN LET e == LiteralEnd(s, i, mode)
       IN  <<NumToken(SubSeq(s, i, e - 1), mode)>> \o Tokenize(s, e, mode)
  ELSE IF s[i] \in {"+", "-", "*", "/", "(", ")"}
  THEN (IF mode = "engine" /\ s[i] \in {"+", "-"} /\ At(s, i + 1) = s[i] THEN <<BadToken>>
        ELSE <<[t |-> "op", c |-> s[i], v |-> NaN]>> \o Tokenize(s, i + 1, mode))
  ELSE <<BadToken>>

IsOp(ts, i, ops) == i <= Len(ts) /\ ts[i].t = "op" /\ ts[i].c \in ops

PFail(err) == [ok |-> FALSE, val |-> NaN, next |-> 0, err |-> err, unary |-> FALSE]

POk(val, next, unary) == [ok |-> TRUE, val |-> val, next |-> next, err |-> "none", unary |-> unary]

binaryOperator(operator, x, y, mode) ==
  IF mode = "scaled" THEN applyOperator(operator, x, y)
  ELSE CASE operator = "*" -> Return(DMul(x, y))
         [] operator = "/" -> Return(DDiv(x, y))
         [] operator = "+" -> Return(DAdd(x, y))
         [] operator = "-" -> Return(DSub(x, y))

\* The reader keeps the operands read and the operators waiting for their
\* right operand; "neg" and "pos" are the signs, which bind tighter than the
\* binary operators.
ReadStart(ts, mode) ==
  [ts |-> ts, mode |-> mode, i |-> 1, vals |-> <<>>, ops |-> <<>>,
   expect |-> "operand", unary |-> FALSE, status |-> "reading", err |-> "none"]

TopOp(st) == IF st.ops = <<>> THEN "" ELSE st.ops[Len(st.ops)]

TokIs(st, ops) == IsOp(st.ts, st.i, ops)

ReadFail(st, err) == [st EXCEPT !.status = "failed", !.err = err]

Shift(st, op, unary) ==
  [st EXCEPT !.ops = Append(@, op), !.i = @ + 1, !.expect = "operand",
             !.unary = @ \/ unary]

\* an operand: a numeral, a parenthesised group, or a signed operand
ReadOperand(st) ==
  IF st.i > Len(st.ts) THEN ReadFail(st, "InvalidExpression")
  ELSE IF st.ts[st.i].t = "num"
  THEN [st EXCEPT !.vals = Append(@, st.ts[st.i].v), !.i = @ + 1, !.expect = "operator"]
  ELSE IF TokIs(st, {"("}) THEN Shift(st, "(", FALSE)
  ELSE IF TokIs(st, {"-"}) THEN Shift(st, "neg", TRUE)
  ELSE IF st.mode = "engine" /\ TokIs(st, {"+"}) THEN Shift(st, "pos", TRUE)
  ELSE ReadFail(st, "InvalidExpression")

Sign(st) ==
  [st EXCEPT !.vals[Len(st.vals)] = IF TopOp(st) = "neg" THEN DNeg(@) ELSE @,
             !.ops = SubSeq(@, 1, Len(@) - 1)]

Reduced(st, r) ==
  IF r.ok
  THEN [st EXCEPT !.vals = Append(SubSeq(@, 1, Len(@) - 2), r.val),
                  !.ops = SubSeq(@, 1, Len(@) - 1)]
  ELSE ReadFail(st, r.err)

\* after an operand: the signs, then * and / from left to right, then + and -
\* from left to right, then the end of the group or of the string
ReadOperator(st) ==
  IF TopOp(st) \in {"neg", "pos"} THEN Sign(st)
  ELSE IF TopOp(st) \in MulDivOps \/ (TopOp(st) \in AddSubOps /\ ~TokIs(st, MulDivOps))
  THEN Reduced(st, binaryOperator(TopOp(st), st.vals[Len(st.vals) - 1],
                                  st.vals[Len(st.vals)], st.mode))
  ELSE IF TokIs(st, MulDivOps \cup AddSubOps) THEN Shift(st, st.ts[st.i].c, FALSE)
  ELSE IF TopOp(st) = "("
  THEN (IF TokIs(st, {")"})
        THEN [st EXCEPT !.ops = SubSeq(@, 1, Len(@) - 1), !.i = @ + 1]
        ELSE ReadFail(st, "UnbalancedParentheses"))
  ELSE IF st.i = Len(st.ts) + 1 THEN [st EXCEPT !.status = "read"]
  ELSE ReadFail(st, "InvalidExpression")

ReadStep(st) == IF st.expect = "operand" THEN ReadOperand(st) ELSE ReadOperator(st)

RECURSIVE ReadLoop(_)
ReadLoop(st) ==
  IF st.status = "reading" THEN ReadLoop(ReadStep(st))
  ELSE IF st.status = "read" THEN POk(st.vals[1], st.i, st.unary)
  ELSE PFail(st.err)

\* the whole string read as one expression
ReadExpression(s, mode) == ReadLoop(ReadStart(Tokenize(s, 1, mode), mode))

\* the value standard arithmetic gives a well-formed expression
StandardValue(s) ==
  IF ReadExpression(s, "syntax").ok THEN ReadExpression(s, "scaled")
  ELSE ReadExpression(s, "syntax")

(***************************************************************************)
(* src/shared/core-calculator.js: calculate by the JavaScript engine.       *)
(***************************************************************************)
\* expression.replace(/[^0-9+\-*/.() ]/g, '')
sanitize(expression) ==
  SelectSeq(expression,
            LAMBDA c : IsDigit(c) \/ c \in {"+", "-", "*", "/", ".", "(", ")", " "})

\* parseFloat(num.toFixed(precision))
format(num, precision) == ParseFloat(ToFixed(num, precision))

corePrecision == 10

\* The strings whose JavaScript reading ReadExpression covers: every "/" and
\* "*" stands where a binary operator can stand, so that the string holds no
\* regular expression literal, no comment and no ** operator.
RECURSIVE LastNonSpace(_, _)
LastNonSpace(s, i) ==
  IF i < 1 THEN "" ELSE IF s[i] = " " THEN LastNonSpace(s, i - 1) ELSE s[i]

InEngineFragment(s) ==
  \A i \in 1..Len(s) :
    s[i] \in {"*", "/"} =>
      (IsDigit(LastNonSpace(s, i - 1)) \/ LastNonSpace(s, i - 1) \in {".", ")"})

\* any failure inside the try is rethrown as the one invalid-expression error
Formatted(r) ==
  IF r.ok THEN Return(format(r.val, corePrecision)) ELSE Throw("InvalidExpression")

coreCalculate(expression) == Formatted(ReadExpression(sanitize(expression), "engine"))

(***************************************************************************)
(* The configuration modules.  A configuration is a JavaScript object of    *)
(* objects; the modules copy some of them and share others, so the objects  *)
(* live in a heap and a value is a number or the address of an object.      *)
(* Modelled: the sections 'precision' (default, max) and 'logging'          *)
(* (enabled, as 0 or 1); the other sections are handled by the same code.   *)
(***************************************************************************)
Num(n) == [t |-> "num", v |-> n]

Obj(a) == [t |-> "obj", v |-> a]

Undefined == [t |-> "undefined", v |-> 0]

\* the enumeration order of the property names
KeyOrder == <<"precision", "logging", "default", "max", "enabled">>

KeysOf(o) == SelectSeq(KeyOrder, LAMBDA k : k \in DOMAIN o)

IndexOfKey(ks, k) == CHOOSE i \in 1..Len(ks) : ks[i] = k

EmptyObject == [k \in {} |-> Undefined]

\* { ...a, ...b }
Spread(a, b) ==
  [k \in DOMAIN a \cup DOMAIN b |-> IF k \in DOMAIN b THEN b[k] ELSE a[k]]

\* an object literal of the two levels section.key, as the nested function
\* section -> key -> number; New allocates its objects, the sections first
New(h, literal) ==
  LET ks == KeysOf(literal)
      sections == [i \in 1..Len(ks) |-> [k \in DOMAIN literal[ks[i]] |-> Num(literal[ks[i]][k])]]
      top == [k \in DOMAIN literal |-> Obj(Len(h) + IndexOfKey(ks, k))]
  IN  [heap |-> h \o sections \o <<top>>, ref |-> Len(h) + Len(ks) + 1]

\* what is read from the object at address a, section by section: a key
\* holding a number directly reads as the empty section
LiteralOf(h, a) ==
  [s \in DOMAIN h[a] |->
     IF h[a][s].t = "obj"
     THEN [k \in {j \in DOMAIN h[h[a][s].v] : h[h[a][s].v][j].t = "num"} |-> h[h[a][s].v][k].v]
     ELSE [k \in {} |-> 0]]

\* JSON.parse(JSON.stringify(object))
DeepCopy(h, a) == New(h, LiteralOf(h, a))

\* getConfig(path, defaultValue) for a path section.key
getConfig(h, root, path, defaultValue) ==
  IF path[1] \notin DOMAIN h[root] THEN defaultValue
  ELSE IF h[root][path[1]].t # "obj" THEN defaultValue
  ELSE IF path[2] \notin DOMAIN h[h[root][path[1]].v] THEN defaultValue
  ELSE IF h[h[root][path[1]].v][path[2]].t = "undefined" THEN defaultValue
  ELSE h[h[root][path[1]].v][path[2]]

\* src/shared/config-manager.js setConfig: globalConfig = { ...globalConfig, ...config }
sharedSetConfig(h, root, config) ==
  [heap |-> h \o <<Spread(h[root], h[config])>>, ref |-> Len(h) + 1]

\* _deepMerge(target, source): a new object; under a key whose source value is
\* an object a new object too, merged with the target's when that is an object
_deepMerge(h, target, source) ==
  LET T == h[target]
      S == h[source]
      ks == SelectSeq(KeysOf(S), LAMBDA k : S[k].t = "obj")
      merged == [i \in 1..Len(ks) |->
                   IF ks[i] \in DOMAIN T /\ T[ks[i]].t = "obj"
                   THEN Spread(h[T[ks[i]].v],
                               [k \in {j \in DOMAIN h[S[ks[i]].v] : h[S[ks[i]].v][j].t # "undefined"}
                                  |-> h[S[ks[i]].v][k]])
                   ELSE h[S[ks[i]].v]]
      result == [k \in DOMAIN T \cup {j \in DOMAIN S : S[j].t # "undefined"} |->
                   IF k \in DOMAIN S /\ S[k].t = "obj" THEN Obj(Len(h) + IndexOfKey(ks, k))
                   ELSE IF k \in DOMAIN S /\ S[k].t # "undefined" THEN S[k]
                   ELSE T[k]]
  IN  [heap |-> h \o merged \o <<result>>, ref |-> Len(h) + Len(ks) + 1]

\* ConfigManager.deepMerge(target, source): a new object; a key is merged into
\* a new object when both values are objects and takes the source's value,
\* the very object, otherwise
deepMerge(h, T, source) ==
  LET S == h[source]
      ks == SelectSeq(KeysOf(S), LAMBDA k : S[k].t = "obj" /\ k \in DOMAIN T /\ T[k].t = "obj")
      merged == [i \in 1..Len(ks) |-> Spread(h[T[ks[i]].v], h[S[ks[i]].v])]
      result == [k \in DOMAIN T \cup DOMAIN S |->
                   IF \E i \in 1..Len(ks) : ks[i] = k THEN Obj(Len(h) + IndexOfKey(ks, k))
                   ELSE IF k \in DOMAIN S THEN S[k]
                   ELSE T[k]]
  IN  [heap |-> h \o merged \o <<result>>, ref |-> Len(h) + Len(ks) + 1]

\* ConfigManager.saveToHistory: history.push({ ...this.config }), the oldest
\* entry dropped beyond maxHistorySize
maxHistorySize == 10

saveToHistory(h, config, history) ==
  LET pushed == Append(history, Len(h) + 1)
  IN  [heap |-> h \o <<h[config]>>,
       history |-> IF Len(pushed) > maxHistorySize THEN Tail(pushed) ELSE pushed]

\* ConfigManager.set(path, value) for a path section.key: the section object
\* is created when missing and written in place otherwise
managerSet(h, config, path, value) ==
  IF path[1] \in DOMAIN h[config] /\ h[config][path[1]].t = "obj"
  THEN [h EXCEPT ![h[config][path[1]].v] = Spread(@, [k \in {path[2]} |-> value])]
  ELSE [i \in 1..(Len(h) + 1) |->
          IF i = Len(h) + 1 THEN [k \in {path[2]} |-> value]
          ELSE IF i = config THEN Spread(h[config], [k \in {path[1]} |-> Obj(Len(h) + 1)])
          ELSE h[i]]

(***************************************************************************)
(* The arithmetic calls.                                                    *)
(***************************************************************************)
VARIABLES
  args,         \* the operands <<a, b>> of the arithmetic call under study
  errorMode,    \* 'errorHandling.mode' of the enhanced calculator's configuration
  last,         \* the call once made: operation, operands and outcome
  input,        \* the expression given to calculate
  impl,         \* the calculator whose calculate runs: which source file
  ev,           \* the evaluation: status, the stack of evaluateExpression calls, outcome
  heap,         \* the objects of the configuration modules, by address
  configModule, \* the configuration module loaded: which source file
  globalConfig, \* the address of the object that is the global configuration
  defaultConfig,\* the address of DEFAULT_CONFIG, 0 where the defaults are a literal
  history,      \* ConfigManager.history: addresses of the saved copies
  calc,         \* createCalc: the configuration object kept, calculator.precision
  instance,     \* createInstanceConfig: the address of config, the keys given to it
  configCall,   \* the configuration call last made
  configCalls,  \* how many configuration calls were made
  chain,        \* the chain accumulator and the chained call last made
  batchCall,    \* the batch call once made
  formatCall,   \* the formatting call once made
  cache,        \* PrecisionCalculator._cache of calculator-factory.js: key -> result
  cacheCall,    \* the call last made on the caching calculator
  cacheCalls    \* the arithmetic calls made on it so far

arithVars == <<args, errorMode, last>>

calcVars == <<input, impl, ev>>

configVars ==
  <<heap, configModule, globalConfig, defaultConfig, history, calc, instance, configCall, configCalls>>

formatVars == <<formatCall>>

cacheVars == <<cache, cacheCall, cacheCalls>>

vars == <<arithVars, calcVars, configVars, chain, batchCall, formatVars, cacheVars>>

\* operands (-1)^neg * m / 10^s with m <= MaxMant and s <= MaxScale
MaxMant == 3

MaxScale == 2

Decimal(neg, m, s) == DFromDec(neg, BFromInt(m), 0 - s)

\* 900719925474100, an integer of fifteen digits
LargeOperand == DFromDec(FALSE, BFromDigits(<<9, 0, 0, 7, 1, 9, 9, 2, 5, 4, 7, 4, 1, 0, 0>>), 0)

Operands ==
  {Decimal(neg, m, s) : neg \in BOOLEAN, m \in 0..MaxMant, s \in 0..MaxScale}
    \cup {LargeOperand}

DefaultPrecision == 10

NoCall == [op |-> "none", a |-> Zero(FALSE), b |-> Zero(FALSE), res |-> Return(Null)]

Call(op, res) == [op |-> op, a |-> args[1], b |-> args[2], res |-> res]

\* no expression is being evaluated
CalcIdle ==
  /\ input = <<>>
  /\ impl = "none"
  /\ ev = Idle

EmptyLiteral == [s \in {} |-> [k \in {} |-> 0]]

NoConfigCall ==
  [op |-> "none", partial |-> EmptyLiteral, merge |-> TRUE, path |-> <<>>,
   before |-> EmptyLiteral, ret |-> Undefined, changes |-> <<>>, undone |-> <<>>]

\* no configuration module is loaded
\* createInstanceConfig was not called
NoInstance == [config |-> 0, given |-> EmptyLiteral]

ConfigIdle ==
  /\ heap = <<>>
  /\ configModule = "none"
  /\ globalConfig = 0
  /\ defaultConfig = 0
  /\ history = <<>>
  /\ calc = [globalConfig |-> 0, precision |-> corePrecision]
  /\ instance = NoInstance
  /\ configCall = NoConfigCall
  /\ configCalls = 0

\* what a chained call returned: nothing yet, the accumulator itself, a
\* number, a string, or an error thrown
ChainRet(kind, val, str) == [kind |-> kind, val |-> val, str |-> str]

NoChainCall ==
  [method |-> "none", arg |-> Zero(FALSE), precision |-> 0, before |-> Zero(FALSE),
   ret |-> ChainRet("none", Zero(FALSE), <<>>)]

NoChain ==
  [class |-> "none", initial |-> Zero(FALSE), value |-> Zero(FALSE), trace |-> <<>>,
   calls |-> 0, call |-> NoChainCall]

\* no chain was created
ChainIdle == chain = NoChain

NoBatch ==
  [fn |-> "none", impl |-> "none", numbers |-> <<>>, expressions |-> <<>>,
   operation |-> "", nargs |-> 0, ok |-> TRUE, err |-> "", results |-> <<>>]

\* no batch was run
BatchIdle == batchCall = NoBatch

NoFormat ==
  [fn |-> "none", class |-> "none", num |-> Zero(FALSE), option |-> 0, thousands |-> FALSE,
   ok |-> TRUE, str |-> <<>>]

\* no formatting function was called
FormatIdle == formatCall = NoFormat

NoCacheCall ==
  [op |-> "none", a |-> Zero(FALSE), b |-> Zero(FALSE), hit |-> FALSE,
   res |-> Return(Null)]

\* a new PrecisionCalculator of calculator-factory.js: this._cache = new Map()
CacheIdle ==
  /\ cache = {}
  /\ cacheCall = NoCacheCall
  /\ cacheCalls = 0

ArithInit ==
  /\ args \in Operands \X Operands
  /\ errorMode = "throw"
  /\ last = NoCall
  /\ CalcIdle
  /\ ConfigIdle
  /\ ChainIdle
  /\ BatchIdle
  /\ FormatIdle
  /\ CacheIdle

Pending == last.op = "none"

Add ==
  /\ Pending
  /\ last' = Call("add", Return(add(args[1], args[2])))
  /\ UNCHANGED <<args, errorMode, calcVars, configVars, chain, batchCall, formatVars, cacheVars>>

Subtract ==
  /\ Pending
  /\ last' = Call("subtract", Return(subtract(args[1], args[2])))
  /\ UNCHANGED <<args, errorMode, calcVars, configVars, chain, batchCall, formatVars, cacheVars>>

Multiply ==
  /\ Pending
  /\ last' = Call("multiply", Return(multiply(args[1], args[2])))
  /\ UNCHANGED <<args, errorMode, calcVars, configVars, chain, batchCall, formatVars, cacheVars>>

Divide ==
  /\ Pending
  /\ last' = Call("divide", divide(args[1], args[2]))
  /\ UNCHANGED <<args, errorMode, calcVars, configVars, chain, batchCall, formatVars, cacheVars>>

MfAdd ==
  /\ Pending
  /\ last' = Call("add", Return(mfAdd(args[1], args[2])))
  /\ UNCHANGED <<args, errorMode, calcVars, configVars, chain, batchCall, formatVars, cacheVars>>

MfSubtract ==
  /\ Pending
  /\ last' = Call("subtract", Return(mfSubtract(args[1], args[2])))
  /\ UNCHANGED <<args, errorMode, calcVars, configVars, chain, batchCall, formatVars, cacheVars>>

MfMultiply ==
  /\ Pending
  /\ last' = Call("multiply", Return(mfMultiply(args[1], args[2])))
  /\ UNCHANGED <<args, errorMode, calcVars, configVars, chain, batchCall, formatVars, cacheVars>>

MfDivide ==
  /\ Pending
  /\ last' = Call("divide", mfDivide(args[1], args[2]))
  /\ UNCHANGED <<args, errorMode, calcVars, configVars, chain, batchCall, formatVars, cacheVars>>

\* new PrecisionCalculator({config: {errorHandling: {mode}}}).divide(a, b):
\* the constructor merges the given options into the configuration
EnhancedDivide ==
  /\ Pending
  /\ \E mode \in ErrorHandlingModes :
       /\ errorMode' = mode
       /\ last' = Call("divide", enhancedDivide(args[1], args[2], DefaultPrecision, mode))
  /\ UNCHANGED <<args, calcVars, configVars, chain, batchCall, formatVars, cacheVars>>

ArithNext ==
  \/ Add \/ Subtract \/ Multiply \/ Divide
  \/ MfAdd \/ MfSubtract \/ MfMultiply \/ MfDivide
  \/ EnhancedDivide

SpecArith == ArithInit /\ [][ArithNext]_vars

\* Whether x is the Number the exact decimal result d denotes
IsExactly(x, d) == DEq(x, NearestNumber(d))

\* C1: for finite operands with non-exponential canonical strings, add,
\* subtract and multiply return exactly the decimal sum, difference and
\* product of the operands.
C1_DecimalExactResults ==
  (/\ last.op \in {"add", "subtract", "multiply"}
   /\ NonExponential(last.a)
   /\ NonExponential(last.b))
  => IsExactly(last.res.val,
       CASE last.op = "add"      -> ExactSum(DecimalOf(last.a), DecimalOf(last.b))
         [] last.op = "subtract" -> ExactDifference(DecimalOf(last.a), DecimalOf(last.b))
         [] last.op = "multiply" -> ExactProduct(DecimalOf(last.a), DecimalOf(last.b)))

\* C2: divide(x, 0) raises DivisionByZero for every finite x; it never
\* returns a value such as Infinity, NaN or null.
C2_DivideByZeroRaises ==
  (last.op = "divide" /\ IsFinite(last.a) /\ IsZero(last.b))
  => (~last.res.ok /\ last.res.err = "DivisionByZero")

(***************************************************************************)
(* Adding an operand and taking it away again.                              *)
(***************************************************************************)
\* calculator.subtract(calculator.add(a, b), b) of precision-calculator.js
AddThenSubtract ==
  /\ Pending
  /\ last' = Call("addThenSubtract", Return(subtract(add(args[1], args[2]), args[2])))
  /\ UNCHANGED <<args, errorMode, calcVars, configVars, chain, batchCall, formatVars, cacheVars>>

\* subtract(add(a, b), b) of mathfix-core.js
MfAddThenSubtract ==
  /\ Pending
  /\ last' = Call("addThenSubtract", Return(mfSubtract(mfAdd(args[1], args[2]), args[2])))
  /\ UNCHANGED <<args, errorMode, calcVars, configVars, chain, batchCall, formatVars, cacheVars>>

RoundTripNext == AddThenSubtract \/ MfAddThenSubtract

SpecRoundTrip == ArithInit /\ [][RoundTripNext]_vars

\* C25: subtract(add(a, b), b) == a for all finite decimal operands a and b.
C25_SubtractUndoesAdd ==
  (last.op = "addThenSubtract" /\ IsFinite(last.a) /\ IsFinite(last.b))
    => DEq(last.res.val, last.a)

(***************************************************************************)
(* Evaluating one expression.                                               *)
(***************************************************************************)
\* the expressions of the documentation and of the tests
NamedExpressions ==
  {
   <<"(", "0", ".", "1", " ", "+", " ", "0", ".", "2", ")", " ", "*", " ", "3", " ", "-", " ", "0", ".", "5">>,
   <<"-", "5", " ", "+", " ", "3">>,
   <<"-", "(", "5", " ", "+", " ", "3", ")", " ", "*", " ", "2">>,
   <<"1", "0", " ", "+", " ", "-", "5">>,
   <<"-", "-", "5", " ", "+", " ", "3">>,
   <<"-", "(", "-", "5", " ", "+", " ", "3", ")">>,
   <<"1", "0", " ", "/", " ", "0">>,
   <<"b", "a", "d">>,
   <<"1", "+", "1">>,
   <<"2", "*", "2">>,
   <<"8", "-", "2", "*", "(", "1", "-", "3", ")">>,
   <<"(", "1", "0", " ", "+", " ", "5", ")", " ", "*", " ", "2", " ", "-", " ", "3">>,
   <<"0", ".", "1", " ", "+", " ", "0", ".", "2">>,
   <<"i", "n", "v", "a", "l", "i", "d", " ", "e", "x", "p", "r", "e", "s", "s", "i", "o", "n">>,
   <<"(", "(", "0", ".", "1", " ", "+", " ", "0", ".", "2", ")", " ", "*", " ", "3", " ", "-", " ", "0", ".", "5", ")", " ", "/", " ", "2">>,
   <<"1", " ", "/", " ", "3">>,
   <<>>
  }

Numerals == {<<"0">>, <<"2">>, <<"0", ".", "5">>}

Operators == {"+", "-", "*", "/"}

\* the most binary operators in a generated expression
MaxOperators == 2

\* numeral (operator numeral)^k, no parentheses
RECURSIVE Flat(_)
Flat(k) ==
  IF k = 0 THEN Numerals
  ELSE {e \o <<o>> \o a : e \in Flat(k - 1), o \in Operators, a \in Numerals}

Grouped == {<<"(">> \o e \o <<")">> : e \in Flat(1)}

\* a group as the left or the right operand of one more operator
WithGroup ==
  {g \o <<o>> \o a : g \in Grouped, o \in Operators, a \in Numerals}
    \cup {a \o <<o>> \o g : a \in Numerals, o \in Operators, g \in Grouped}

BinaryExpressions ==
  UNION {Flat(k) : k \in 0..MaxOperators} \cup Grouped \cup WithGroup

\* a negation sign at the start, doubled, or after an operator
UnaryExpressions ==
  {u \o e : u \in {<<"-">>, <<"-", "-">>}, e \in Flat(0) \cup Flat(1) \cup Grouped}
    \cup {a \o <<o, "-">> \o e : a \in Numerals, o \in Operators, e \in Flat(0) \cup Flat(1)}

\* a parenthesis left open, or closed without having been opened
UnbalancedExpressions ==
  {<<"(">> \o e : e \in Flat(1)} \cup {e \o <<")">> : e \in Flat(0) \cup Flat(1)}

\* an operator with an operand missing
DanglingExpressions == {e \o <<o>> : e \in Flat(0), o \in Operators}

Expressions ==
  NamedExpressions \cup BinaryExpressions \cup UnaryExpressions
    \cup UnbalancedExpressions \cup DanglingExpressions

CalcInit ==
  /\ input \in Expressions
  /\ impl = "none"
  /\ ev = Idle
  /\ args = <<Zero(FALSE), Zero(FALSE)>>
  /\ errorMode = "throw"
  /\ last = NoCall
  /\ ConfigIdle
  /\ ChainIdle
  /\ BatchIdle
  /\ FormatIdle
  /\ CacheIdle

Running == ev.status = "running"

\* precision-calculator.js: calculate(expression) is called
Calculate ==
  /\ ev.status = "idle"
  /\ impl' = "precision-calculator"
  /\ ev' = calculateStart(input)
  /\ UNCHANGED <<input, arithVars, configVars, chain, batchCall, formatVars, cacheVars>>

\* calculate(expression) of core-calculator.js returned or threw
Ended(r) == IF r.ok THEN Returned(r.val, <<>>) ELSE Thrown(r.err)

\* core-calculator.js: calculate(expression) is called and returns or throws
CoreCalculate ==
  /\ ev.status = "idle"
  /\ InEngineFragment(sanitize(input))
  /\ impl' = "core-calculator"
  /\ ev' = Ended(coreCalculate(input))
  /\ UNCHANGED <<input, arithVars, configVars, chain, batchCall, formatVars, cacheVars>>

ResolveGroup ==
  /\ Running
  /\ StepKind(ev) = "group"
  /\ ev' = enterGroup(ev)
  /\ UNCHANGED <<input, impl, arithVars, configVars, chain, batchCall, formatVars, cacheVars>>

ParenthesisMismatch ==
  /\ Running
  /\ StepKind(ev) = "mismatch"
  /\ ev' = Thrown("UnbalancedParentheses")
  /\ UNCHANGED <<input, impl, arithVars, configVars, chain, batchCall, formatVars, cacheVars>>

MultiplyDivideStep ==
  /\ Running
  /\ StepKind(ev) = "muldiv"
  /\ ev' = multiplyDivideStep(ev)
  /\ UNCHANGED <<input, impl, arithVars, configVars, chain, batchCall, formatVars, cacheVars>>

AddSubtractStep ==
  /\ Running
  /\ StepKind(ev) = "addsub"
  /\ ev' = addSubtractStep(ev)
  /\ UNCHANGED <<input, impl, arithVars, configVars, chain, batchCall, formatVars, cacheVars>>

ReturnValue ==
  /\ Running
  /\ StepKind(ev) = "return"
  /\ ev' = returnStep(ev)
  /\ UNCHANGED <<input, impl, arithVars, configVars, chain, batchCall, formatVars, cacheVars>>

CalcNext ==
  \/ Calculate
  \/ ResolveGroup \/ ParenthesisMismatch
  \/ MultiplyDivideStep \/ AddSubtractStep \/ ReturnValue

SpecCalc == CalcInit /\ [][CalcNext]_vars

CoreNext == CoreCalculate

SpecCore == CalcInit /\ [][CoreNext]_vars

\* every call of calculate is run on: a started evaluation is not abandoned
TerminationInputs ==
  NamedExpressions \cup Flat(1) \cup {<<"(">> \o e : e \in Flat(1)}

FairInit == CalcInit /\ input \in TerminationInputs

\* a step of the call can be taken and changes the state: what
\* ENABLED <<CalcNext>>_vars says, computed from the step itself
Advancing == ev.status = "idle" \/ (Running /\ Step(ev) # ev)

\* JavaScript runs a call to completion: the weak fairness of CalcNext, with
\* its enabling condition written out
RunToCompletion == []<>(~Advancing) \/ []<><<CalcNext>>_vars

SpecCalcFair ==
  FairInit /\ [][CalcNext]_vars /\ WF_vars(Calculate) /\ RunToCompletion

Finished == ev.status \in {"returned", "thrown"}

ByPrecisionCalculator == impl = "precision-calculator" /\ Finished

\* an expression built from non-negative numerals, the binary operators and
\* balanced parentheses
Plain(s) == ReadExpression(s, "syntax").ok /\ ~ReadExpression(s, "syntax").unary

\* C3: for an expression built from non-negative numerals, + - * / and
\* balanced parentheses calculate returns the value standard arithmetic
\* gives: groups first, * and / from left to right before + and -, whatever
\* the sign of the intermediate results.
C3_StandardArithmetic ==
  (ByPrecisionCalculator /\ Plain(input) /\ StandardValue(input).ok)
    => ev.status = "returned" /\ ev.val = StandardValue(input).val

\* a well-formed expression with a '-' at the start, after '(' or after an
\* operator
Signed(s) == ReadExpression(s, "syntax").ok /\ ReadExpression(s, "syntax").unary

\* C4: a '-' at the start, after '(' or after another operator negates
\* exactly the operand that follows it, a numeral or a parenthesised group:
\* calculate returns the value of the expression read that way.
C4_MinusNegatesNextOperand ==
  (ByPrecisionCalculator /\ Signed(input) /\ StandardValue(input).ok)
    => ev.status = "returned" /\ DEq(ev.val, StandardValue(input).val)

\* the number of '(' of s from i on left without a matching ')'
RECURSIVE Unmatched(_, _, _)
Unmatched(s, i, open) ==
  IF i > Len(s) THEN open
  ELSE IF s[i] = "(" THEN Unmatched(s, i + 1, open + 1)
  ELSE IF s[i] = ")" /\ open > 0 THEN Unmatched(s, i + 1, open - 1)
  ELSE Unmatched(s, i + 1, open)

\* C6: calculate fails with UnbalancedParentheses for every input in which
\* some '(' has no matching ')'; no such input yields a number.
C6_UnmatchedParenthesisFails ==
  (ByPrecisionCalculator /\ Unmatched(input, 1, 0) > 0)
    => ev.status = "thrown" /\ ev.err = "UnbalancedParentheses"

\* s is exactly one numeral
IsNumeral(s) == NumeralEnd(s, 1) = Len(s) + 1

\* C7: calculate fails with InvalidExpression whenever the string left after
\* all reductions is not exactly one valid numeral: it returns a value only
\* for a residue that is one numeral, never NaN and never the number parsed
\* from a prefix of the residue.
C7_InvalidResidueFails ==
  (ByPrecisionCalculator /\ ev.status = "returned")
    => IsNumeral(ev.residue) /\ ev.val # NaN

\* a well-formed expression whose evaluation divides by zero
DividesByZero(s) ==
  /\ ReadExpression(s, "syntax").ok
  /\ ~StandardValue(s).ok
  /\ StandardValue(s).err = "DivisionByZero"

\* C8: calculate raises an error for every expression whose evaluation
\* divides by zero, a literal zero divisor or a divisor group that evaluates
\* to 0; it never returns Infinity or NaN for it.
C8_DivisionByZeroRaises ==
  (Finished /\ DividesByZero(input)) => ev.status = "thrown"

\* C9: calculate terminates: every evaluation started returns or fails after
\* finitely many steps of the parenthesis loop and of the two reduction loops.
C9_CalculateTerminates == Running ~> Finished

\* ((0.1 + 0.2) * 3 - 0.5) / 2 has been evaluated, through two nested calls
\* and a rewrite in each loop
C9_Witness ==
  /\ Len(input) = 27
  /\ ev.status = "returned"
  /\ ev.val = Decimal(FALSE, 2, 1)

\* the step about to be taken rewrites a string: a triple is replaced by its
\* result, or a nested call returns and its group is replaced by the result
Rewrites ==
  /\ Running
  /\ \/ StepKind(ev) \in {"muldiv", "addsub"}
     \/ StepKind(ev) = "return" /\ Len(ev.stack) > 1
  /\ ev'.status = "running"

\* the string that step rewrites: the caller's when a nested call returns
Rewritten ==
  IF StepKind(ev) = "return" THEN ev.stack[Len(ev.stack) - 1].expression
  ELSE Top(ev).expression

\* what is left to do in a string: two for each open parenthesis and one for
\* each operator that follows a digit
Work(s) ==
  2 * Cardinality({i \in 1..Len(s) : s[i] = "("})
    + Cardinality({i \in 2..Len(s) : s[i] \in Operators /\ IsDigit(s[i - 1])})

SharedDefaults == [precision |-> [default |-> 10], logging |-> [enabled |-> 0]]

\* the layered module: DEFAULT_CONFIG
LayeredDefaults == [precision |-> [default |-> 10, max |-> 20], logging |-> [enabled |-> 0]]

\* the ConfigManager class: DEFAULT_CONFIG
ManagerDefaults == [precision |-> [default |-> 10, max |-> 100], logging |-> [enabled |-> 1]]

ConfigModules == {"shared", "layered", "manager"}

DefaultsOf(m) ==
  CASE m = "shared"  -> SharedDefaults
    [] m = "layered" -> LayeredDefaults
    [] m = "manager" -> ManagerDefaults

\* the partial configurations given to setConfig
Partials ==
  {[precision |-> [default |-> 4]],
   [precision |-> [max |-> 5]],
   [logging |-> [enabled |-> 1]],
   [precision |-> [default |-> 2], logging |-> [enabled |-> 0]]}

Paths == {<<"precision", "default">>, <<"precision", "max">>, <<"logging", "enabled">>}

Precisions == {4, 2}

\* the most configuration calls in a run
MaxConfigCalls == 3

\* the state of each module once loaded; createCalc(calculator,
\* getGlobalConfigRef()) keeps the object that is the global configuration
\* at that time, and new ConfigManager() merges {} into DEFAULT_CONFIG
LoadedShared ==
  LET n == New(<<>>, SharedDefaults)
  IN  [heap |-> n.heap, globalConfig |-> n.ref, defaultConfig |-> 0, history |-> <<>>,
       calc |-> [globalConfig |-> n.ref, precision |-> corePrecision]]

LoadedLayered ==
  LET d == New(<<>>, LayeredDefaults)
      g == DeepCopy(d.heap, d.ref)
  IN  [heap |-> g.heap, globalConfig |-> g.ref, defaultConfig |-> d.ref, history |-> <<>>,
       calc |-> [globalConfig |-> 0, precision |-> corePrecision]]

LoadedManager ==
  LET d == New(<<>>, ManagerDefaults)
      e == d.heap \o <<EmptyObject>>
      m == deepMerge(e, e[d.ref], Len(e))
      s == saveToHistory(m.heap, m.ref, <<>>)
  IN  [heap |-> s.heap, globalConfig |-> m.ref, defaultConfig |-> d.ref, history |-> s.history,
       calc |-> [globalConfig |-> 0, precision |-> corePrecision]]

Loaded(m) ==
  CASE m = "shared"  -> LoadedShared
    [] m = "layered" -> LoadedLayered
    [] m = "manager" -> LoadedManager

ConfigInit ==
  /\ configModule \in ConfigModules
  /\ heap = Loaded(configModule).heap
  /\ globalConfig = Loaded(configModule).globalConfig
  /\ defaultConfig = Loaded(configModule).defaultConfig
  /\ history = Loaded(configModule).history
  /\ calc = Loaded(configModule).calc
  /\ instance = NoInstance
  /\ configCall = NoConfigCall
  /\ configCalls = 0
  /\ args = <<Zero(FALSE), Zero(FALSE)>>
  /\ errorMode = "throw"
  /\ last = NoCall
  /\ CalcIdle
  /\ ChainIdle
  /\ BatchIdle
  /\ FormatIdle
  /\ CacheIdle

\* what is read from the global configuration
GlobalView == LiteralOf(heap, globalConfig)

\* the calls that change a ConfigManager's configuration and save to its history
ChangingCalls == {"set", "setConfig", "resetConfig"}

\* what the configuration read before each change made and not undone so far,
\* the most recent change last
ChangesAfter(op) ==
  IF configModule = "manager" /\ op \in ChangingCalls
  THEN Append(configCall.changes, GlobalView)
  ELSE IF op = "undo" /\ configCall.changes # <<>>
  THEN SubSeq(configCall.changes, 1, Len(configCall.changes) - 1)
  ELSE configCall.changes

ConfigCallOf(op, partial, merge, path, ret) ==
  [op |-> op, partial |-> partial, merge |-> merge, path |-> path,
   before |-> GlobalView, ret |-> ret, changes |-> ChangesAfter(op),
   undone |-> IF op = "undo" /\ configCall.changes # <<>>
              THEN <<configCall.changes[Len(configCall.changes)]>>
              ELSE <<>>]

MayCall == configCalls < MaxConfigCalls /\ configCalls' = configCalls + 1

\* setConfig merging into the current layer whatever merge says
setConfigMerging(m, h, root, defaults, config, merge) ==
  IF m = "manager" THEN deepMerge(h, h[root], config) ELSE _deepMerge(h, root, config)

\* setConfig(partial, merge) of each module
setConfigOf(m, h, root, defaults, config, merge) ==
  CASE m = "shared"  -> sharedSetConfig(h, root, config)
    [] m = "layered" -> IF merge THEN _deepMerge(h, root, config)
                        ELSE _deepMerge(h, defaults, config)
    [] m = "manager" -> IF merge THEN deepMerge(h, h[root], config)
                        ELSE [heap |-> h \o <<h[config]>>, ref |-> Len(h) + 1]

SetConfigWith(partial, merge) ==
  LET given == New(heap, partial)
      set   == setConfigOf(configModule, given.heap, globalConfig, defaultConfig, given.ref, merge)
      saved == saveToHistory(set.heap, set.ref, history)
  IN  /\ globalConfig' = set.ref
      /\ heap' = IF configModule = "manager" THEN saved.heap ELSE set.heap
      /\ history' = IF configModule = "manager" THEN saved.history ELSE history
      /\ configCall' = ConfigCallOf("setConfig", partial, merge, <<>>, Num(1))

SetConfig ==
  /\ configModule \in ConfigModules
  /\ MayCall
  /\ \E partial \in Partials, merge \in BOOLEAN :
       /\ configModule = "shared" => merge
       /\ SetConfigWith(partial, merge)
  /\ UNCHANGED <<configModule, defaultConfig, calc, instance, arithVars, calcVars, chain, batchCall, formatVars, cacheVars>>

\* resetConfig() of each module; ConfigManager.reset() merges DEFAULT_CONFIG
\* into {} and saves to the history
resetConfigOf(m, h, defaults) ==
  CASE m = "shared"  -> New(h, SharedDefaults)
    [] m = "layered" -> DeepCopy(h, defaults)
    [] m = "manager" -> deepMerge(h, EmptyObject, defaults)

ResetConfig ==
  /\ configModule \in ConfigModules
  /\ MayCall
  /\ LET reset == resetConfigOf(configModule, heap, defaultConfig)
         saved == saveToHistory(reset.heap, reset.ref, history)
     IN  /\ globalConfig' = reset.ref
         /\ heap' = IF configModule = "manager" THEN saved.heap ELSE reset.heap
         /\ history' = IF configModule = "manager" THEN saved.history ELSE history
  /\ configCall' = ConfigCallOf("resetConfig", EmptyLiteral, TRUE, <<>>, Num(1))
  /\ UNCHANGED <<configModule, defaultConfig, calc, instance, arithVars, calcVars, chain, batchCall, formatVars, cacheVars>>

\* ConfigManager.set(path, value)
Set ==
  /\ configModule = "manager"
  /\ MayCall
  /\ \E path \in Paths, value \in Precisions :
       LET written == managerSet(heap, globalConfig, path, Num(value))
           saved   == saveToHistory(written, globalConfig, history)
       IN  /\ heap' = saved.heap
           /\ history' = saved.history
           /\ configCall' = ConfigCallOf("set", EmptyLiteral, TRUE, path, Num(value))
  /\ UNCHANGED <<configModule, globalConfig, defaultConfig, calc, instance, arithVars, calcVars, chain, batchCall, formatVars, cacheVars>>

\* ConfigManager.undo(): the current entry is dropped and config becomes a
\* copy of the entry before it
Undo ==
  /\ configModule = "manager"
  /\ MayCall
  /\ IF Len(history) > 1
     THEN /\ history' = SubSeq(history, 1, Len(history) - 1)
          /\ heap' = heap \o <<heap[history[Len(history) - 1]]>>
          /\ globalConfig' = Len(heap) + 1
          /\ configCall' = ConfigCallOf("undo", EmptyLiteral, TRUE, <<>>, Num(1))
     ELSE /\ UNCHANGED <<history, heap, globalConfig>>
          /\ configCall' = ConfigCallOf("undo", EmptyLiteral, TRUE, <<>>, Num(0))
  /\ UNCHANGED <<configModule, defaultConfig, calc, instance, arithVars, calcVars, chain, batchCall, formatVars, cacheVars>>

\* getConfig(path, 10)
GetConfig ==
  /\ configModule \in ConfigModules
  /\ MayCall
  /\ \E path \in Paths :
       configCall' = ConfigCallOf("getConfig", EmptyLiteral, TRUE, path,
                                  getConfig(heap, globalConfig, path, Num(10)))
  /\ UNCHANGED <<heap, configModule, globalConfig, defaultConfig, history, calc, instance, arithVars, calcVars, chain, batchCall, formatVars, cacheVars>>

\* createCalc(...).setPrecision(precision): calculator.setPrecision(precision),
\* then globalConfig.precision.default = precision on the object kept
CalcSetPrecision ==
  /\ configModule = "shared"
  /\ MayCall
  /\ \E precision \in Precisions :
       /\ calc' = [calc EXCEPT !.precision = precision]
       /\ heap' = [heap EXCEPT ![heap[calc.globalConfig]["precision"].v] =
                                 Spread(@, [k \in {"default"} |-> Num(precision)])]
       /\ configCall' = ConfigCallOf("calc.setPrecision", EmptyLiteral, TRUE, <<>>, Undefined)
  /\ UNCHANGED <<configModule, globalConfig, defaultConfig, history, instance, arithVars, calcVars, chain, batchCall, formatVars, cacheVars>>

\* getPrecision() of createCalc without getGlobalConfig:
\* globalConfig.precision.default of the object kept
getPrecision(h, kept) == h[h[kept]["precision"].v]["default"].v

\* the operands of calc.divide: 1 / 3
One == DInt(1)

Three == DInt(3)

\* createCalc(...).divide(a, b): calculator.format(calculator.divide(a, b), getPrecision())
calcDivide(a, b, precision) == format(divideValues(a, b), precision)

CalcDivide ==
  /\ configModule = "shared"
  /\ MayCall
  /\ configCall' = ConfigCallOf("calc.divide", EmptyLiteral, TRUE, <<>>,
                                [t |-> "num", v |-> getPrecision(heap, calc.globalConfig)])
  /\ last' = [op |-> "calc.divide", a |-> One, b |-> Three,
              res |-> Return(calcDivide(One, Three, getPrecision(heap, calc.globalConfig)))]
  /\ UNCHANGED <<heap, configModule, globalConfig, defaultConfig, history, calc, instance,
                 args, errorMode, calcVars, chain, batchCall, formatVars, cacheVars>>

ConfigNext ==
  \/ SetConfig \/ ResetConfig \/ Set \/ Undo \/ GetConfig
  \/ CalcSetPrecision \/ CalcDivide

SpecConfig == ConfigInit /\ [][ConfigNext]_vars


\* what a configuration read section by section holds under a path
ViewAt(literal, path) ==
  IF path[1] \in DOMAIN literal /\ path[2] \in DOMAIN literal[path[1]]
  THEN Num(literal[path[1]][path[2]])
  ELSE Undefined

Supplies(partial, path) == ViewAt(partial, path) # Undefined

\* C11: once setConfig has set the global precision.default to p, a later
\* calc.divide without a precision returns its quotient rounded to the p
\* decimals that getConfig('precision.default') reads at that time.
C11_GlobalPrecisionInForce ==
  configCall.op = "calc.divide"
  => last.res.val = calcDivide(One, Three,
                               getConfig(heap, globalConfig, <<"precision", "default">>, Num(10)).v)

\* C12: after setConfig(partial) with merge = true every path that partial
\* supplies reads partial's value and every other path reads what it read
\* before the call.
C12_SetConfigDeepMerges ==
  (configCall.op = "setConfig" /\ configCall.merge)
  => \A path \in Paths :
       ViewAt(GlobalView, path) =
         IF Supplies(configCall.partial, path) THEN ViewAt(configCall.partial, path)
         ELSE ViewAt(configCall.before, path)

C14_ResetRestoresDefaults ==
  configCall.op = "resetConfig" => GlobalView = DefaultsOf(configModule)

\* C15: a call other than setConfig and resetConfig (calc.setPrecision,
\* calc.divide, getConfig) leaves every value read from the global
\* configuration as it was before the call.
C15_GlobalChangedOnlyBySetConfig ==
  configCall.op \in {"calc.setPrecision", "calc.divide", "getConfig"}
  => GlobalView = configCall.before

\* C29: undo() returns true and restores the configuration to exactly what
\* it read before the most recent set, setConfig or reset not yet undone;
\* with no earlier state retained it returns false and changes nothing.
C29_UndoRestoresPreviousState ==
  configCall.op = "undo"
  => IF configCall.undone # <<>>
     THEN configCall.ret = Num(1) /\ GlobalView = configCall.undone[1]
     ELSE configCall.ret = Num(0) /\ GlobalView = configCall.before

(***************************************************************************)
(* The instance layer of createInstanceConfig and the call-level precision  *)
(* of createCalc(...).format.                                               *)
(***************************************************************************)
\* the objects given to createInstanceConfig
InstanceConfigs == Partials \cup {EmptyLiteral}

\* the keys an instance was given so far with those of one more object
Over(given, newConfig) ==
  [s \in DOMAIN given \cup DOMAIN newConfig |->
     IF s \in DOMAIN given /\ s \in DOMAIN newConfig THEN Spread(given[s], newConfig[s])
     ELSE IF s \in DOMAIN newConfig THEN newConfig[s]
     ELSE given[s]]

\* createInstanceConfig(instanceConfig): config = _deepMerge(globalConfig, instanceConfig)
CreateInstanceConfig ==
  /\ configModule = "layered"
  /\ instance.config = 0
  /\ MayCall
  /\ \E instanceConfig \in InstanceConfigs :
       LET given == New(heap, instanceConfig)
           made  == _deepMerge(given.heap, globalConfig, given.ref)
       IN  /\ heap' = made.heap
           /\ instance' = [config |-> made.ref, given |-> instanceConfig]
           /\ configCall' = ConfigCallOf("createInstanceConfig", instanceConfig, TRUE, <<>>, Undefined)
  /\ UNCHANGED <<configModule, globalConfig, defaultConfig, history, calc, arithVars, calcVars, chain, batchCall, formatVars, cacheVars>>

\* the instance's setConfig(newConfig, merge): merged into config, or into
\* the global configuration of the moment when merge is false
InstanceSetConfig ==
  /\ instance.config # 0
  /\ MayCall
  /\ \E newConfig \in Partials, merge \in BOOLEAN :
       LET given == New(heap, newConfig)
           set   == _deepMerge(given.heap, IF merge THEN instance.config ELSE globalConfig, given.ref)
       IN  /\ heap' = set.heap
           /\ instance' = [config |-> set.ref,
                           given |-> IF merge THEN Over(instance.given, newConfig) ELSE newConfig]
           /\ configCall' = ConfigCallOf("instance.setConfig", newConfig, merge, <<>>, Num(1))
  /\ UNCHANGED <<configModule, globalConfig, defaultConfig, history, calc, arithVars, calcVars, chain, batchCall, formatVars, cacheVars>>

\* the instance's resetConfig(): config = JSON.parse(JSON.stringify(globalConfig))
InstanceResetConfig ==
  /\ instance.config # 0
  /\ MayCall
  /\ LET reset == DeepCopy(heap, globalConfig)
     IN  /\ heap' = reset.heap
         /\ instance' = [config |-> reset.ref, given |-> EmptyLiteral]
  /\ configCall' = ConfigCallOf("instance.resetConfig", EmptyLiteral, TRUE, <<>>, Num(1))
  /\ UNCHANGED <<configModule, globalConfig, defaultConfig, history, calc, arithVars, calcVars, chain, batchCall, formatVars, cacheVars>>

\* the instance's getConfig(path, 10)
InstanceGetConfig ==
  /\ instance.config # 0
  /\ MayCall
  /\ \E path \in Paths :
       configCall' = ConfigCallOf("instance.getConfig", EmptyLiteral, TRUE, path,
                                  getConfig(heap, instance.config, path, Num(10)))
  /\ UNCHANGED <<heap, configModule, globalConfig, defaultConfig, history, calc, instance, arithVars, calcVars, chain, batchCall, formatVars, cacheVars>>

\* the precision given to one call of format, or none
CallPrecisions == {EmptyLiteral, [precision |-> [default |-> 6]]}

\* precision !== undefined ? precision : getPrecision()
precisionOfCall(call, h, kept) ==
  IF "precision" \in DOMAIN call THEN call["precision"]["default"] ELSE getPrecision(h, kept)

\* createCalc(...).format(num, precision) of 1 / 3:
\* calculator.format(num, precision !== undefined ? precision : getPrecision())
CalcFormat ==
  /\ configModule = "shared"
  /\ MayCall
  /\ \E call \in CallPrecisions :
       /\ configCall' = ConfigCallOf("calc.format", call, TRUE, <<"precision", "default">>,
                                     Num(precisionOfCall(call, heap, calc.globalConfig)))
       /\ last' = [op |-> "calc.format", a |-> One, b |-> Three,
                   res |-> Return(calcDivide(One, Three, precisionOfCall(call, heap, calc.globalConfig)))]
  /\ UNCHANGED <<heap, configModule, globalConfig, defaultConfig, history, calc, instance,
                 args, errorMode, calcVars, chain, batchCall, formatVars, cacheVars>>

CascadeInit == ConfigInit /\ configModule \in {"shared", "layered"}

CascadeNext ==
  \/ SetConfig
  \/ CreateInstanceConfig \/ InstanceSetConfig \/ InstanceResetConfig \/ InstanceGetConfig
  \/ CalcFormat

SpecCascade == CascadeInit /\ [][CascadeNext]_vars

\* call-override ?? instance ?? global ?? built-in default, for one key
Effective(call, given, global, path) ==
  IF Supplies(call, path) THEN ViewAt(call, path)
  ELSE IF Supplies(given, path) THEN ViewAt(given, path)
  ELSE IF Supplies(global, path) THEN ViewAt(global, path)
  ELSE ViewAt(DefaultsOf(configModule), path)

\* C10: the value an operation uses for a key is the value given to the call
\* when there is one, else the value the instance was given for that key,
\* else what the global configuration holds for it at that time, else the
\* built-in default.
C10_EffectiveValueCascades ==
  configCall.op \in {"instance.getConfig", "calc.format"}
  => configCall.ret = Effective(configCall.partial, instance.given, GlobalView, configCall.path)

(***************************************************************************)
(* The chain accumulators: ChainableCalculator of precision-calculator.js   *)
(* and of src/shared/core-calculator.js, ChainCalculator of                 *)
(* src/shared/calculator-factory.js.                                        *)
(***************************************************************************)
ChainClasses == {"precision-calculator", "core-calculator", "calculator-factory"}

ArithmeticMethods == {"add", "subtract", "multiply", "divide"}

\* Math.round(num * factor) / factor with factor = Math.pow(10, precision)
round(num, precision) ==
  DDiv(MathRound(DMul(num, MathPow10(precision))), MathPow10(precision))

\* add(num): this.value = this.calculator.add(this.value, num)
chainAdd(value, num) == Return(add(value, num))

\* a subtract that takes its operands in the other order
chainSubtractSwapped(value, num) == Return(subtract(num, value))

\* subtract(num): this.value = this.calculator.subtract(this.value, num)
chainSubtract(value, num) == Return(subtract(value, num))

\* multiply(num): this.value = this.calculator.multiply(this.value, num)
chainMultiply(value, num) == Return(multiply(value, num))

\* divide(num): this.value = this.calculator.divide(this.value, num), which
\* throws on a zero divisor (the cache of calculator-factory.js holds the
\* results of that same arithmetic)
chainDivide(value, num) == divide(value, num)

\* calculator.toPercent(value, 2, true): precision-calculator.js multiplies
\* by its scaled multiply, core-calculator.js by num * 100
toPercent(class, num) ==
  NumToString(round(IF class = "precision-calculator" THEN multiply(num, DInt(100))
                    ELSE DMul(num, DInt(100)), 2)) \o <<"%">>

InitialValues == {DInt(10)}

ChainOperands == {DInt(5), DInt(2)}

FormatPrecisions == {0, 2}

\* the most chained calls after chain(initial)
MaxChainCalls == 3

ChainInit ==
  /\ chain = NoChain
  /\ args = <<Zero(FALSE), Zero(FALSE)>>
  /\ errorMode = "throw"
  /\ last = NoCall
  /\ CalcIdle
  /\ ConfigIdle
  /\ BatchIdle
  /\ FormatIdle
  /\ CacheIdle

\* chain(initial): new ChainableCalculator(initial)
Chain ==
  /\ chain.class = "none"
  /\ \E class \in ChainClasses, initial \in InitialValues :
       chain' = [NoChain EXCEPT !.class = class, !.initial = initial, !.value = initial]
  /\ UNCHANGED <<arithVars, calcVars, configVars, batchCall, formatVars, cacheVars>>

Chained == chain.class # "none" /\ chain.calls < MaxChainCalls

ChainCall(method, arg, precision, ret) ==
  [method |-> method, arg |-> arg, precision |-> precision, before |-> chain.value, ret |-> ret]

This == ChainRet("this", Zero(FALSE), <<>>)

\* a method that assigns this.value and returns this; an error thrown by the
\* calculator leaves this.value as it was
Mutate(method, arg, precision, res) ==
  chain' = IF res.ok
           THEN [chain EXCEPT !.value = res.val,
                              !.trace = Append(@, <<method, arg, precision>>),
                              !.calls = @ + 1,
                              !.call = ChainCall(method, arg, precision, This)]
           ELSE [chain EXCEPT !.calls = @ + 1,
                              !.call = ChainCall(method, arg, precision, ChainRet("throw", Zero(FALSE), <<>>))]

\* a method that returns what it computes from this.value
Read(method, precision, ret) ==
  chain' = [chain EXCEPT !.calls = @ + 1, !.call = ChainCall(method, Zero(FALSE), precision, ret)]

ChainAdd ==
  /\ Chained
  /\ \E num \in ChainOperands : Mutate("add", num, 0, chainAdd(chain.value, num))
  /\ UNCHANGED <<arithVars, calcVars, configVars, batchCall, formatVars, cacheVars>>

ChainSubtract ==
  /\ Chained
  /\ \E num \in ChainOperands : Mutate("subtract", num, 0, chainSubtract(chain.value, num))
  /\ UNCHANGED <<arithVars, calcVars, configVars, batchCall, formatVars, cacheVars>>

ChainMultiply ==
  /\ Chained
  /\ \E num \in ChainOperands : Mutate("multiply", num, 0, chainMultiply(chain.value, num))
  /\ UNCHANGED <<arithVars, calcVars, configVars, batchCall, formatVars, cacheVars>>

ChainDivide ==
  /\ Chained
  /\ chain.class \in ChainClasses
  /\ \E num \in ChainOperands \cup {Zero(FALSE)} :
       Mutate("divide", num, 0, chainDivide(chain.value, num))
  /\ UNCHANGED <<arithVars, calcVars, configVars, batchCall, formatVars, cacheVars>>

\* format(precision): precision-calculator.js returns
\* calculator.format(this.value, precision); core-calculator.js assigns it to
\* this.value and returns this
ChainFormat ==
  /\ Chained
  /\ chain.class \in {"precision-calculator", "core-calculator"}
  /\ \E precision \in FormatPrecisions :
       IF chain.class = "core-calculator"
       THEN Mutate("format", Zero(FALSE), precision, Return(format(chain.value, precision)))
       ELSE Read("format", precision,
                 ChainRet("number", format(chain.value, precision), <<>>))
  /\ UNCHANGED <<arithVars, calcVars, configVars, batchCall, formatVars, cacheVars>>

ChainToPercent ==
  /\ Chained
  /\ chain.class \in {"precision-calculator", "core-calculator"}
  /\ Read("toPercent", 2, ChainRet("string", Zero(FALSE), toPercent(chain.class, chain.value)))
  /\ UNCHANGED <<arithVars, calcVars, configVars, batchCall, formatVars, cacheVars>>

\* a valueOf that returns the value the chain started with
valueOfInitial(c) == c.initial

\* valueOf(): return this.value
valueOf(c) == c.value

ChainValueOf ==
  /\ Chained
  /\ Read("valueOf", 0, ChainRet("number", valueOf(chain), <<>>))
  /\ UNCHANGED <<arithVars, calcVars, configVars, batchCall, formatVars, cacheVars>>

\* ChainCalculator.valueOf(precision): this._calculator.format(this.value, precision)
ChainValueOfRounded ==
  /\ Chained
  /\ chain.class = "calculator-factory"
  /\ \E precision \in FormatPrecisions :
       Read("valueOf(precision)", precision,
            ChainRet("number", round(chain.value, precision), <<>>))
  /\ UNCHANGED <<arithVars, calcVars, configVars, batchCall, formatVars, cacheVars>>

\* toString(): return this.value.toString()
ChainToString ==
  /\ Chained
  /\ Read("toString", 0, ChainRet("string", Zero(FALSE), NumToString(chain.value)))
  /\ UNCHANGED <<arithVars, calcVars, configVars, batchCall, formatVars, cacheVars>>

ChainNext ==
  \/ Chain
  \/ ChainAdd \/ ChainSubtract \/ ChainMultiply \/ ChainDivide
  \/ ChainFormat \/ ChainToPercent
  \/ ChainValueOf \/ ChainValueOfRounded \/ ChainToString

SpecChain == ChainInit /\ [][ChainNext]_vars

\* the scaled-integer result of one chained operation
Scaled(method, value, num, precision) ==
  CASE method = "add"      -> add(value, num)
    [] method = "subtract" -> subtract(value, num)
    [] method = "multiply" -> multiply(value, num)
    [] method = "divide"   -> divideValues(value, num)
    [] method = "format"   -> format(value, precision)

\* the left-to-right fold of the operations over the initial value
RECURSIVE Fold(_, _, _)
Fold(value, trace, i) ==
  IF i > Len(trace) THEN value
  ELSE Fold(Scaled(trace[i][1], value, trace[i][2], trace[i][3]), trace, i + 1)

OnlyArithmetic == \A i \in 1..Len(chain.trace) : chain.trace[i][1] \in ArithmeticMethods

C18_FormattingLeavesAccumulator ==
  chain.call.method \in {"format", "toPercent"} => chain.value = chain.call.before

\* C19: valueOf() and toString() leave the accumulator as it was, and
\* valueOf() returns the value the last mutating call produced, or the
\* initial value.
C19_ReadsLeaveAccumulator ==
  /\ chain.call.method \in {"valueOf", "toString"} => chain.value = chain.call.before
  /\ chain.call.method = "valueOf"
     => /\ chain.call.ret.kind = "number"
        /\ chain.call.ret.val = Fold(chain.initial, chain.trace, 1)

\* valueOf() called again right after a mutating call and a valueOf()
C19_Witness ==
  /\ chain.call.method = "valueOf"
  /\ chain.calls = 3
  /\ Len(chain.trace) = 1
  /\ chain.value # chain.initial


(***************************************************************************)
(* batch: the function src/shared/utils.js exports, which mathfix.js and    *)
(* mathfix.mjs export as it is, and the fallback mathfix.js defines for the *)
(* case that the module does not load.  Modelled: the operations 'sqrt',    *)
(* 'square' and 'abs' and an unsupported name; Math.sqrt on the squares of  *)
(* the integers up to MaxRoot, where it is exact.                           *)
(***************************************************************************)
MaxRoot == 4

MathSqrt(x) == CHOOSE r \in {DInt(n) : n \in 0..MaxRoot} : DMul(r, r) = x

BatchImpls == {"utils", "fallback"}

SupportedOperations == {"sqrt", "square", "abs"}

\* '' stands for an operation that was not passed
Operations == SupportedOperations \cup {"cube", ""}

BatchNumbers == {DInt(1), DInt(4), DInt(9), DInt(16)}

BatchExpressions ==
  {<<"1", "+", "2">>, <<"2", "*", "3">>, <<"4", "/", "2">>, <<"1", "+">>}

\* the arrays passed: the two of the tests and the shorter ones
NumberArrays ==
  {<<DInt(1), DInt(4), DInt(9), DInt(16)>>}
    \cup {<<a>> : a \in BatchNumbers}
    \cup {<<a, b>> : a \in BatchNumbers, b \in BatchNumbers}

ExpressionArrays ==
  {<<<<"1", "+", "2">>, <<"2", "*", "3">>, <<"4", "/", "2">>>>}
    \cup {<<a>> : a \in BatchExpressions}
    \cup {<<a, b>> : a \in BatchExpressions, b \in BatchExpressions}

\* the numbers of arguments of a call: batch(input), batch(input, operation)
\* and batch(input, operation, undefined, calculator, globalConfig)
ArgumentCounts == {1, 2, 5}

\* core-calculator.js calculateBatch: an expression that throws gives null;
\* a number has no replace method, so calculate throws for it
OrNull(r) == IF r.ok THEN r.val ELSE Null

calculateBatch(numbers, expressions) ==
  IF numbers # <<>> THEN [i \in 1..Len(numbers) |-> Null]
  ELSE [i \in 1..Len(expressions) |-> OrNull(coreCalculate(expressions[i]))]

\* the body of the try of the numeric mode, for one element
batchElement(from, operation, n, usePrecision) ==
  CASE operation = "sqrt" ->
         Return(IF from = "utils" THEN format(MathSqrt(n), usePrecision) ELSE MathSqrt(n))
    [] operation = "square" ->
         Return(IF from = "utils" THEN format(multiply(n, n), usePrecision) ELSE multiply(n, n))
    [] operation = "abs" ->
         Return(IF from = "utils" THEN format(MathAbs(n), usePrecision) ELSE MathAbs(n))
    [] OTHER -> Throw("UnsupportedOperation")

\* results.push(result) in the try, results.push(null) in the catch
numericMode(from, numbers, operation, usePrecision) ==
  [i \in 1..Len(numbers) |->
     OrNull(batchElement(from, operation, numbers[i], usePrecision))]

BatchResult(ok, err, results) == [ok |-> ok, err |-> err, results |-> results]

\* batch(input, operation, precision, calculator, globalConfig): the
\* calculator of utils.js is its fourth parameter, the fallback makes its own
batch(from, numbers, expressions, operation, nargs) ==
  IF nargs <= 3 \/ operation = ""
  THEN IF from = "utils" /\ nargs < 4
       THEN BatchResult(FALSE, "TypeError", <<>>)
       ELSE BatchResult(TRUE, "", calculateBatch(numbers, expressions))
  ELSE BatchResult(TRUE, "", numericMode(from, numbers, operation, corePrecision))

BatchInit ==
  /\ batchCall = NoBatch
  /\ args = <<Zero(FALSE), Zero(FALSE)>>
  /\ errorMode = "throw"
  /\ last = NoCall
  /\ CalcIdle
  /\ ConfigIdle
  /\ ChainIdle
  /\ FormatIdle
  /\ CacheIdle

BatchCallOf(from, numbers, expressions, operation, nargs, r) ==
      [fn |-> "batch", impl |-> from, numbers |-> numbers, expressions |-> expressions,
       operation |-> operation, nargs |-> nargs, ok |-> r.ok, err |-> r.err,
       results |-> r.results]

\* batch keeps nothing from one call to the next: one call is modelled
NotCalled == batchCall = NoBatch

\* the first argument: an array of numbers or an array of expression strings
BatchInputs ==
  {[numbers |-> n, expressions |-> <<>>] : n \in NumberArrays}
    \cup {[numbers |-> <<>>, expressions |-> e] : e \in ExpressionArrays}

\* batch(numbers, operation, ...), batch(expressions) and
\* batch(expressions, undefined, undefined, calculator, globalConfig)
Batch ==
  /\ NotCalled
  /\ \E from \in BatchImpls, array \in BatchInputs, operation \in Operations,
        nargs \in ArgumentCounts :
       /\ array.numbers # <<>> => nargs # 1
       /\ array.expressions # <<>> => operation = "" /\ nargs # 2
       /\ batchCall' = BatchCallOf(from, array.numbers, array.expressions, operation, nargs,
                                   batch(from, array.numbers, array.expressions, operation, nargs))
  /\ UNCHANGED <<arithVars, calcVars, configVars, chain, formatVars, cacheVars>>

BatchNext == Batch

SpecBatch == BatchInit /\ [][BatchNext]_vars

\* the operation applied to one number
Applied(operation, n) ==
  CASE operation = "sqrt"   -> MathSqrt(n)
    [] operation = "square" -> multiply(n, n)
    [] operation = "abs"    -> MathAbs(n)

\* a call as the tests make it: batch(numbers, operation) or batch(expressions)
ExportedCall == batchCall.fn = "batch" /\ batchCall.nargs <= 2

\* C16: a batch helper that cannot produce a result raises an error: a call
\* in numeric mode with an operation that is not supported does not return.
C16_FailuresRaise ==
  (/\ batchCall.fn = "batch"
   /\ batchCall.nargs > 3
   /\ batchCall.operation \notin SupportedOperations \cup {""})
  => ~batchCall.ok

\* C20: batch(numbers, operation) returns the operation applied to each
\* number, in input order, and batch(expressions) returns the value of each
\* expression, in input order.
C20_BatchSelectsMode ==
  /\ (/\ ExportedCall
      /\ batchCall.numbers # <<>>
      /\ batchCall.operation \in SupportedOperations)
     => /\ batchCall.ok
        /\ batchCall.results =
             [i \in 1..Len(batchCall.numbers) |->
                Applied(batchCall.operation, batchCall.numbers[i])]
  /\ (/\ ExportedCall
      /\ batchCall.expressions # <<>>
      /\ \A i \in 1..Len(batchCall.expressions) :
           ReadExpression(batchCall.expressions[i], "syntax").ok)
     => /\ batchCall.ok
        /\ batchCall.results =
             [i \in 1..Len(batchCall.expressions) |->
                StandardValue(batchCall.expressions[i]).val]


(***************************************************************************)
(* calculateBatch of precision-calculator.js and of                         *)
(* src/shared/core-calculator.js.                                           *)
(***************************************************************************)
\* expressions.map(callback): an exception of the callback ends the map
mapped(rs) ==
  IF \A i \in 1..Len(rs) : rs[i].ok
  THEN BatchResult(TRUE, "", [i \in 1..Len(rs) |-> rs[i].val])
  ELSE BatchResult(FALSE, rs[CHOOSE i \in 1..Len(rs) :
                                ~rs[i].ok /\ \A j \in 1..(i - 1) : rs[j].ok].err, <<>>)

\* precision-calculator.js calculateBatch:
\* expressions.map(expr => this.calculate(expr))
calculatorCalculateBatch(expressions) ==
  mapped([i \in 1..Len(expressions) |-> calculate(expressions[i])])

\* core-calculator.js calculateBatch: the callback catches and returns null
coreCalculateBatch(expressions) ==
  BatchResult(TRUE, "", calculateBatch(<<>>, expressions))

ElementExpressions ==
  {<<"1", "+", "1">>, <<"b", "a", "d">>, <<"2", "*", "2">>,
   <<"1", "0", " ", "/", " ", "0">>, <<"(", "1">>}

\* the longest array passed
MaxBatchLen == 3

RECURSIVE ArraysOf(_)
ArraysOf(n) ==
  IF n = 0 THEN {<<>>}
  ELSE {Append(a, e) : a \in ArraysOf(n - 1), e \in ElementExpressions}

CalculateBatchInputs == UNION {ArraysOf(n) : n \in 1..MaxBatchLen}

CalculateBatchCallOf(from, expressions, r) ==
  [fn |-> "calculateBatch", impl |-> from, numbers |-> <<>>, expressions |-> expressions,
   operation |-> "", nargs |-> 1, ok |-> r.ok, err |-> r.err, results |-> r.results]

CalculateBatch ==
  /\ NotCalled
  /\ \E expressions \in CalculateBatchInputs :
       batchCall' = CalculateBatchCallOf("precision-calculator", expressions,
                                         calculatorCalculateBatch(expressions))
  /\ UNCHANGED <<arithVars, calcVars, configVars, chain, formatVars, cacheVars>>

CoreCalculateBatch ==
  /\ NotCalled
  /\ \E expressions \in CalculateBatchInputs :
       batchCall' = CalculateBatchCallOf("core-calculator", expressions,
                                         coreCalculateBatch(expressions))
  /\ UNCHANGED <<arithVars, calcVars, configVars, chain, formatVars, cacheVars>>

CalculateBatchNext == CalculateBatch \/ CoreCalculateBatch

SpecCalculateBatch == BatchInit /\ [][CalculateBatchNext]_vars

\* calculate(expression) of the implementation that ran the batch
calculateOf(from, expression) ==
  IF from = "core-calculator" THEN coreCalculate(expression) ELSE calculate(expression)

\* C5: calculateBatch returns an array of the length of its input in which
\* position i holds calculate(exprs[i]) when that succeeds and null when it
\* fails; a failing element never aborts the batch.
C5_FailingElementGivesNull ==
  batchCall.fn = "calculateBatch"
    => /\ batchCall.ok
       /\ batchCall.results =
            [i \in 1..Len(batchCall.expressions) |->
               OrNull(calculateOf(batchCall.impl, batchCall.expressions[i]))]

(***************************************************************************)
(* Chained calls that fail: divide(0) on the ChainableCalculator of         *)
(* precision-calculator.js and on the ChainCalculator of                    *)
(* src/shared/calculator-factory.js, sqrt() of a negative value on the      *)
(* latter, divide(0) on the ChainCalculator of src/tests/enhanced-test.js   *)
(* under each error handling mode.                                          *)
(***************************************************************************)
FailureClasses == {"precision-calculator", "calculator-factory", "enhanced-test"}

FailureInitials == {DInt(16), DInt(4), Decimal(TRUE, 4, 0)}

Divisors == {Zero(FALSE), DInt(2)}

\* calculator.chain(initial) of a calculator whose 'errorHandling.mode' is mode
ChainOf ==
  /\ chain.class = "none"
  /\ \E class \in FailureClasses, initial \in FailureInitials, mode \in ErrorHandlingModes :
       /\ class # "enhanced-test" => mode = "throw"
       /\ errorMode' = mode
       /\ chain' = [NoChain EXCEPT !.class = class, !.initial = initial, !.value = initial]
  /\ UNCHANGED <<args, last, calcVars, configVars, batchCall, formatVars, cacheVars>>

\* ChainCalculator.divide(value) of enhanced-test.js:
\* this.value = this.calculator.divide(this.value, value, this.precision)
EnhancedChainDivide ==
  /\ Chained
  /\ chain.class = "enhanced-test"
  /\ \E num \in Divisors :
       Mutate("divide", num, DefaultPrecision,
              enhancedDivide(chain.value, num, DefaultPrecision, errorMode))
  /\ UNCHANGED <<arithVars, calcVars, configVars, batchCall, formatVars, cacheVars>>

HasRoot(x) == \E n \in 0..MaxRoot : DMul(DInt(n), DInt(n)) = x

\* ChainCalculator.sqrt() of calculator-factory.js: throws on a negative
\* value before it assigns
chainSqrt(value) ==
  IF DLess(value, Zero(FALSE)) THEN Throw("NumberRange") ELSE Return(MathSqrt(value))

FactoryChainSqrt ==
  /\ Chained
  /\ chain.class = "calculator-factory"
  /\ DLess(chain.value, Zero(FALSE)) \/ HasRoot(chain.value)
  /\ Mutate("sqrt", Zero(FALSE), 0, chainSqrt(chain.value))
  /\ UNCHANGED <<arithVars, calcVars, configVars, batchCall, formatVars, cacheVars>>

FailureNext ==
  \/ ChainOf
  \/ ChainDivide \/ EnhancedChainDivide \/ FactoryChainSqrt
  \/ ChainValueOf

SpecChainFailure == ChainInit /\ [][FailureNext]_vars

\* the call last made is one that fails: a division by zero, the square
\* root of a negative value
FailingCall ==
  \/ chain.call.method = "divide" /\ IsZero(chain.call.arg)
  \/ chain.call.method = "sqrt" /\ DLess(chain.call.before, Zero(FALSE))

\* C28: after a chained operation that fails the accumulator holds the value
\* it had before the call, and it never holds null, NaN or Infinity.
C28_FailedCallLeavesAccumulator ==
  /\ FailingCall => chain.value = chain.call.before
  /\ chain.class # "none" => IsFinite(chain.value)

(***************************************************************************)
(* mathfix-core.js: toChineseCapital.  A numeral string is the sequence of  *)
(* its characters, each written here by its pinyin name: ling and yi, er,   *)
(* san, si, wu, liu, qi, ba, jiu for the digits 0 to 9, shi, bai, qian for  *)
(* the units of a section, wan, YI, zhao for the big units, yuan, jiao,     *)
(* fen, zheng for the currency words and fu for the minus sign.             *)
(***************************************************************************)
digits == <<"ling", "yi", "er", "san", "si", "wu", "liu", "qi", "ba", "jiu">>

units == <<<<>>, <<"shi">>, <<"bai">>, <<"qian">>>>

bigUnits == <<<<>>, <<"wan">>, <<"YI">>, <<"zhao">>>>

\* the loop of convertSection from unit i down: Math.floor(num / 10^i) % 10
RECURSIVE convertSectionFrom(_, _, _, _)
convertSectionFrom(num, i, result, needZero) ==
  IF i < 0 THEN result
  ELSE IF (num \div 10^i) % 10 > 0
  THEN convertSectionFrom(num, i - 1,
         result \o (IF needZero THEN <<"ling">> ELSE <<>>)
                \o <<digits[((num \div 10^i) % 10) + 1]>> \o units[i + 1],
         FALSE)
  ELSE convertSectionFrom(num, i - 1, result, needZero \/ result # <<>>)

\* a section of four digits, 0 < num < 10000
convertSection(num) == convertSectionFrom(num, 3, <<>>, FALSE)

\* the while loop of convertIntegerPart: num is what is left, as limbs
RECURSIVE convertIntegerFrom(_, _, _)
convertIntegerStep(d, unitIndex, result) ==
  convertIntegerFrom(d.q, unitIndex + 1,
    IF d.r > 0 THEN convertSection(d.r) \o bigUnits[unitIndex + 1] \o result
    ELSE IF result # <<>> /\ unitIndex > 0 THEN <<"ling">> \o result
    ELSE result)

convertIntegerFrom(num, unitIndex, result) ==
  IF num = <<>> \/ Len(result) < 0 THEN result
  ELSE convertIntegerStep(BDivSmall(num, 10000), unitIndex, result)

convertIntegerPart(num) == convertIntegerFrom(num, 0, <<>>)

\* parseInt(c) of one character: a digit, or NaN (written -1: no comparison
\* the code makes with it holds)
parseIntChar(c) == IF IsDigit(c) THEN DigitVal(c) ELSE -1

\* the jiao and fen of the decimal part
capitalDecimal(jiao, fen) ==
  IF jiao = 0 /\ fen = 0 THEN <<"zheng">>
  ELSE (IF jiao > 0 THEN <<digits[jiao + 1], "jiao">>
        ELSE IF fen > 0 THEN <<"ling">> ELSE <<>>)
         \o (IF fen > 0 THEN <<digits[fen + 1], "fen">> ELSE <<>>)

\* num.toString().split('.'): parts[0] read by parseInt, parts[1] || ''
capitalOfParts(str, dot) ==
  LET integerPart == BFromDigits(StripLeadingZeros(DigitVals(SubSeq(str, 1, DigitsEnd(str, 1) - 1))))
      decimalPart == IF dot = 0 THEN <<>> ELSE SubSeq(str, dot + 1, Len(str))
  IN  (IF integerPart = <<>> THEN <<"ling">> ELSE convertIntegerPart(integerPart))
        \o <<"yuan">>
        \o (IF Len(decimalPart) > 0
            THEN capitalDecimal(parseIntChar(decimalPart[1]),
                                IF Len(decimalPart) >= 2 THEN parseIntChar(decimalPart[2]) ELSE 0)
            ELSE <<"zheng">>)

capitalOfString(str) == capitalOfParts(str, IndexOfFrom(str, ".", 1))

\* 1000000000000
Trillion == DFromDec(FALSE, <<1>>, 12)

\* toChineseCapital(num) for a finite num > 0
capitalOfPositive(num) ==
  IF ~DLess(num, Trillion) THEN Throw("Error")
  ELSE Return(capitalOfString(NumToString(num)))

Prefixed(r) == IF r.ok THEN Return(<<"fu">> \o r.val) ELSE r

\* toChineseCapital(num) for a finite num
toChineseCapital(num) ==
  IF IsZero(num) THEN Return(<<"ling", "yuan", "zheng">>)
  ELSE IF num.neg THEN Prefixed(capitalOfPositive(DNeg(num)))
  ELSE capitalOfPositive(num)


(***************************************************************************)
(* precision-calculator.js and core-calculator.js: toCurrency.              *)
(***************************************************************************)
\* \w of a regular expression, over the characters toFixed writes
IsWordChar(c) == c \notin {"", ".", "-", "+", ",", " "}

\* the number of digits of s from position i on, up to the first other
\* character
DigitRun(s, i) == DigitsEnd(s, i) - i

\* /\B(?=(\d{3})+(?!\d))/ matches at the gap after character i: no word
\* boundary there, and the digits that follow are three, six, nine, ... up to
\* a character that is no digit
GroupGap(s, i) ==
  /\ IsWordChar(At(s, i)) = IsWordChar(At(s, i + 1))
  /\ DigitRun(s, i + 1) > 0
  /\ DigitRun(s, i + 1) % 3 = 0

\* str.replace(/\B(?=(\d{3})+(?!\d))/g, ','), the gaps from i on
RECURSIVE replaceGroupGaps(_, _, _)
replaceGroupGaps(s, i, acc) ==
  IF i > Len(s) THEN acc
  ELSE replaceGroupGaps(s, i + 1,
         acc \o <<s[i]>> \o (IF i < Len(s) /\ GroupGap(s, i) THEN <<",">> ELSE <<>>))

\* a leading gap (before the first character) never matches: the text starts
\* with a digit, a word boundary, or with "-", which no digit run starts at
withCommas(s) == replaceGroupGaps(s, 1, <<>>)

\* parts = formatted.split('.'); parts[0] = parts[0].replace(...); parts.join('.')
integerPartWithCommas(formatted, dot) ==
  IF dot = 0 THEN withCommas(formatted)
  ELSE withCommas(SubSeq(formatted, 1, dot - 1)) \o SubSeq(formatted, dot, Len(formatted))

CurrencyClasses == {"precision-calculator", "core-calculator"}

\* toCurrency(num, currency, precision, thousands): precision-calculator.js
\* groups parts[0] only, core-calculator.js runs the replace over the whole
\* of rounded.toFixed(precision)
grouped(class, formatted) ==
  IF class = "precision-calculator"
  THEN integerPartWithCommas(formatted, IndexOfFrom(formatted, ".", 1))
  ELSE withCommas(formatted)

toCurrency(class, num, currency, precision, thousands) ==
  currency \o (IF thousands THEN grouped(class, ToFixed(round(num, precision), precision))
               ELSE ToFixed(round(num, precision), precision))

(***************************************************************************)
(* precision-calculator.js: toFraction.                                     *)
(***************************************************************************)
\* the integer that an integer-valued Number holds
IntOf(x) == IF x.m = <<>> THEN 0 ELSE BToInt(BShl(x.m, x.e))

\* getGCD(a, b) { return b === 0 ? a : this.getGCD(b, a % b) }
RECURSIVE getGCD(_, _)
getGCD(a, b) == IF b = 0 THEN a ELSE getGCD(b, a % b)

\* the body of the for loop for one denominator: best is the numerator, the
\* denominator and minDiff kept so far
closer(decimalPart, best, numerator, denominator, diff) ==
  IF DLess(diff, best.minDiff)
  THEN [numerator |-> numerator, denominator |-> denominator, minDiff |-> diff]
  ELSE best

tryNumerator(decimalPart, best, numerator, denominator) ==
  closer(decimalPart, best, numerator, denominator,
         MathAbs(DSub(decimalPart, DDiv(numerator, DInt(denominator)))))

RECURSIVE bestFraction(_, _, _, _)
bestFraction(decimalPart, maxDenominator, denominator, best) ==
  IF denominator > maxDenominator THEN best
  ELSE bestFraction(decimalPart, maxDenominator, denominator + 1,
         tryNumerator(decimalPart, best,
                      MathRound(DMul(decimalPart, DInt(denominator))), denominator))

\* `${bestNumerator / gcd}/${bestDenominator / gcd}`
reduced(numerator, denominator, gcd) ==
  DigitString(IntDigits(numerator \div gcd)) \o <<"/">>
    \o DigitString(IntDigits(denominator \div gcd))

simplest(best) ==
  reduced(IntOf(best.numerator), best.denominator,
          getGCD(IntOf(best.numerator), best.denominator))

fractionOf(sign, integerPart, decimalPart, maxDenominator) ==
  IF IsZero(decimalPart) THEN sign \o NumToString(integerPart)
  ELSE sign \o (IF IsZero(integerPart) THEN <<>> ELSE NumToString(integerPart) \o <<" ">>)
         \o simplest(bestFraction(decimalPart, maxDenominator, 2,
                       [numerator |-> DInt(1), denominator |-> 1,
                        minDiff |-> MathAbs(DSub(decimalPart, DInt(1)))]))

fractionOfAbs(sign, absNum, integerPart, maxDenominator) ==
  fractionOf(sign, integerPart, DSub(absNum, integerPart), maxDenominator)

\* toFraction(num, maxDenominator) for a finite num
toFraction(num, maxDenominator) ==
  IF IsZero(num) THEN <<"0">>
  ELSE fractionOfAbs(IF num.neg THEN <<"-">> ELSE <<>>, MathAbs(num),
                     MathFloor(MathAbs(num)), maxDenominator)


(***************************************************************************)
(* The formatting functions, each called once on an amount.                 *)
(***************************************************************************)
\* the greatest power of ten of an amount: 10^12 is the bound of toChineseCapital
MaxPower == 12

\* a * 10^i + b * 10^j for j < i <= MaxPower, and their negatives
CapitalLeading == {1, 9}

CapitalTrailing == {0, 1}

CapitalIntegers ==
  {DFromDec(neg, BAdd(BMul(BFromInt(a), Pow10(i)), BMul(BFromInt(b), Pow10(j))), 0) :
     neg \in BOOLEAN, a \in CapitalLeading, b \in CapitalTrailing,
     i \in 1..MaxPower, j \in 0..(MaxPower - 1)}

CapitalAmounts == CapitalIntegers \cup Operands

\* 1234.5, 0.5, 1234567.891, -1234.5, 999.999 and 12
CurrencyAmounts ==
  {Decimal(FALSE, 12345, 1), Decimal(FALSE, 5, 1),
   DFromDec(FALSE, BFromDigits(<<1, 2, 3, 4, 5, 6, 7, 8, 9, 1>>), -3),
   Decimal(TRUE, 12345, 1), DFromDec(FALSE, BFromDigits(<<9, 9, 9, 9, 9, 9>>), -3),
   DInt(12)}

MaxCurrencyPrecision == 4

\* 0.5, 1.25, 0.999, 0.001, 0.333, -2.75, 2 and -3
FractionAmounts ==
  {Decimal(FALSE, 5, 1), Decimal(FALSE, 125, 2), Decimal(FALSE, 999, 3),
   Decimal(FALSE, 1, 3), Decimal(FALSE, 333, 3), Decimal(TRUE, 275, 2), DInt(2), DInt(-3)}

MaxDenominators == {2, 4, 10, 100}

FormatInit ==
  /\ formatCall = NoFormat
  /\ args = <<Zero(FALSE), Zero(FALSE)>>
  /\ errorMode = "throw"
  /\ last = NoCall
  /\ CalcIdle
  /\ ConfigIdle
  /\ ChainIdle
  /\ BatchIdle
  /\ CacheIdle

Formatting(fn, class, num, option, thousands, ok, str) ==
  [fn |-> fn, class |-> class, num |-> num, option |-> option, thousands |-> thousands,
   ok |-> ok, str |-> str]

CapitalCall(num, r) ==
  Formatting("toChineseCapital", "mathfix-core", num, 0, FALSE, r.ok,
             IF r.ok THEN r.val ELSE <<>>)

ToChineseCapital ==
  /\ formatCall = NoFormat
  /\ \E num \in CapitalAmounts : formatCall' = CapitalCall(num, toChineseCapital(num))
  /\ UNCHANGED <<arithVars, calcVars, configVars, chain, batchCall, cacheVars>>

\* the currency sign is written "$"
ToCurrency ==
  /\ formatCall = NoFormat
  /\ \E class \in CurrencyClasses, num \in CurrencyAmounts,
        precision \in 0..MaxCurrencyPrecision, thousands \in BOOLEAN :
       formatCall' = Formatting("toCurrency", class, num, precision, thousands, TRUE,
                                toCurrency(class, num, <<"$">>, precision, thousands))
  /\ UNCHANGED <<arithVars, calcVars, configVars, chain, batchCall, cacheVars>>

ToFraction ==
  /\ formatCall = NoFormat
  /\ \E num \in FractionAmounts, maxDenominator \in MaxDenominators :
       formatCall' = Formatting("toFraction", "precision-calculator", num, maxDenominator,
                                FALSE, TRUE, toFraction(num, maxDenominator))
  /\ UNCHANGED <<arithVars, calcVars, configVars, chain, batchCall, cacheVars>>

FormatNext == ToChineseCapital \/ ToCurrency \/ ToFraction

SpecFormat == FormatInit /\ [][FormatNext]_vars

\* C21: toChineseCapital(x) fails if and only if the magnitude of x is above
\* 10^12: every amount with |x| <= 10^12 is converted.
C21_FailsOnlyAboveTrillion ==
  formatCall.fn = "toChineseCapital"
    => (~formatCall.ok <=> DLess(Trillion, MathAbs(formatCall.num)))


\* the digits ds with a separator every three digits counted from the right
RECURSIVE GroupsOfThree(_)
GroupsOfThree(ds) ==
  IF Len(ds) <= 3 THEN ds
  ELSE GroupsOfThree(SubSeq(ds, 1, Len(ds) - 3)) \o <<",">> \o SubSeq(ds, Len(ds) - 2, Len(ds))

WithoutCommas(str) == SelectSeq(str, LAMBDA c : c # ",")

\* the text with the digits before its decimal point grouped: plain is an
\* optional "-", digits, and an optional "." with digits after it
GroupedInteger(plain) ==
  LET sign == IF At(plain, 1) = "-" THEN 1 ELSE 0
      stop == DigitsEnd(plain, sign + 1)
  IN  SubSeq(plain, 1, sign) \o GroupsOfThree(SubSeq(plain, sign + 1, stop - 1))
        \o SubSeq(plain, stop, Len(plain))

\* C22: with thousands grouping, toCurrency puts the separator only inside
\* the integer part, every three digits counted leftwards from the decimal
\* point; the fractional part holds no separator, whatever the precision.
C22_GroupsIntegerPartOnly ==
  (formatCall.fn = "toCurrency" /\ formatCall.thousands)
    => Tail(formatCall.str) = GroupedInteger(WithoutCommas(Tail(formatCall.str)))

Coprime(n, d) == \A k \in 2..n : n % k # 0 \/ d % k # 0

IsInteger(x) == MathFloor(x) = x

\* what comes before the fraction: the sign and the integer part when it is
\* not zero
FractionPrefix(num) ==
  (IF num.neg THEN <<"-">> ELSE <<>>)
    \o (IF IsZero(MathFloor(MathAbs(num))) THEN <<>>
        ELSE NumToString(MathFloor(MathAbs(num))) \o <<" ">>)

\* C23: toFraction renders the fractional part of a non-integer x as a proper
\* fraction in lowest terms, 0 < num < den <= maxDenominator, after the sign
\* and the integer part when it is not zero; an integer is rendered as a
\* whole number.
C23_ProperFractionInLowestTerms ==
  formatCall.fn = "toFraction"
    => IF IsInteger(formatCall.num)
       THEN formatCall.str = NumToString(formatCall.num)
       ELSE \E den \in 2..formatCall.option : \E num \in 1..(den - 1) :
              /\ Coprime(num, den)
              /\ formatCall.str = FractionPrefix(formatCall.num)
                                    \o DigitString(IntDigits(num)) \o <<"/">>
                                    \o DigitString(IntDigits(den))

\* the decimal digits of the integer amount called with
AmountDigits == BDigits(BShl(formatCall.num.m, formatCall.num.e))

\* digit i is the first of a run of zeros that lies between two digits that
\* are not zero
OpensInnerZeroRun(ds, i) ==
  /\ ds[i] = 0
  /\ i > 1
  /\ ds[i - 1] # 0
  /\ \E j \in (i + 1)..Len(ds) : ds[j] # 0

\* the digit words of ds with one ling for each inner run of zeros
RECURSIVE DigitWords(_, _)
DigitWords(ds, i) ==
  IF i > Len(ds) THEN <<>>
  ELSE (IF ds[i] # 0 THEN <<digits[ds[i] + 1]>>
        ELSE IF OpensInnerZeroRun(ds, i) THEN <<"ling">> ELSE <<>>)
         \o DigitWords(ds, i + 1)

\* the digit at 10^p of ds
DigitAtPower(ds, p) == IF p < Len(ds) THEN ds[Len(ds) - p] ELSE 0

SectionIsZero(ds, section) == \A p \in (4 * section)..(4 * section + 3) : DigitAtPower(ds, p) = 0

Count(str, c) == Len(SelectSeq(str, LAMBDA x : x = c))

IntegerAmountBelowTrillion ==
  /\ formatCall.fn = "toChineseCapital"
  /\ ~formatCall.num.neg
  /\ ~IsZero(formatCall.num)
  /\ IsInteger(formatCall.num)
  /\ DLess(formatCall.num, Trillion)

\* C30: for an integer amount 0 < n < 10^12 toChineseCapital writes one ling
\* for each maximal run of zero digits between two non-zero digits and no
\* other ling, and one wan and one YI for the non-zero groups of four digits
\* they belong to.
C30_OneLingPerInnerZeroRun ==
  IntegerAmountBelowTrillion
    => /\ formatCall.ok
       /\ SelectSeq(formatCall.str, LAMBDA c : \E d \in 1..10 : digits[d] = c)
            = DigitWords(AmountDigits, 1)
       /\ Count(formatCall.str, "wan") = (IF SectionIsZero(AmountDigits, 1) THEN 0 ELSE 1)
       /\ Count(formatCall.str, "YI") = (IF SectionIsZero(AmountDigits, 2) THEN 0 ELSE 1)


(***************************************************************************)
(* src/shared/calculator-factory.js: the PrecisionCalculator that keeps     *)
(* its results in this._cache.                                              *)
(***************************************************************************)
CachedOperations == {"add", "subtract", "multiply", "divide"}

\* a key that leaves the operation out
cacheKeyOfOperands(op, a, b) == NumToString(a) \o <<"_">> \o NumToString(b)

\* `add_${a}_${b}`: the operation and the operands as strings
cacheKey(op, a, b) == <<op, "_">> \o NumToString(a) \o <<"_">> \o NumToString(b)

\* this._cache.has(key) and this._cache.get(key)
has(map, key) == \E entry \in map : entry.key = key

get(map, key) == (CHOOSE entry \in map : entry.key = key).val

\* this._cache.set(key, result)
set(map, key, result) ==
  {entry \in map : entry.key # key} \cup {[key |-> key, val |-> result]}

\* the calculation of an operation, once the arguments are checked
calculation(op, a, b) ==
  CASE op = "add"      -> add(a, b)
    [] op = "subtract" -> subtract(a, b)
    [] op = "multiply" -> multiply(a, b)
    [] op = "divide"   -> divideValues(a, b)

\* the checks every operation starts with: typeof and isNaN of both
\* arguments, and b === 0 for divide
rejection(op, a, b) ==
  IF IsNaN(a) \/ IsNaN(b) THEN "InvalidInput"
  ELSE IF op = "divide" /\ DEq(b, Zero(FALSE)) THEN "DivisionByZero"
  ELSE "none"

\* the same operation with no cache
uncached(op, a, b) ==
  IF rejection(op, a, b) # "none" THEN Throw(rejection(op, a, b))
  ELSE Return(calculation(op, a, b))

\* what a call returns or throws, whether the cache served it, and the cache
\* after it
Served(map, val) == [res |-> Return(val), hit |-> TRUE, map |-> map]

Computed(map, key, val) == [res |-> Return(val), hit |-> FALSE, map |-> set(map, key, val)]

\* an operation of the calculator: the checks, then the cache, then the
\* calculation, whose result is val
lookup(map, key, val) ==
  IF has(map, key) THEN Served(map, get(map, key)) ELSE Computed(map, key, val)

cached(map, op, a, b, val) ==
  IF rejection(op, a, b) # "none"
  THEN [res |-> Throw(rejection(op, a, b)), hit |-> FALSE, map |-> map]
  ELSE lookup(map, cacheKey(op, a, b), val)

\* +0, -0, 0.1 and NaN
CacheOperands == {Zero(FALSE), Zero(TRUE), Decimal(FALSE, 1, 1), NaN}

\* the most arithmetic calls on one calculator
MaxCacheCalls == 2

CacheInit ==
  /\ CacheIdle
  /\ args = <<Zero(FALSE), Zero(FALSE)>>
  /\ errorMode = "throw"
  /\ last = NoCall
  /\ CalcIdle
  /\ ConfigIdle
  /\ ChainIdle
  /\ BatchIdle
  /\ FormatIdle

CacheCallOf(op, a, b, r) ==
  /\ cache' = r.map
  /\ cacheCall' = [op |-> op, a |-> a, b |-> b, hit |-> r.hit, res |-> r.res]
  /\ cacheCalls' = cacheCalls + 1

MayCalculate == cacheCalls < MaxCacheCalls

CachedAdd ==
  /\ MayCalculate
  /\ \E a \in CacheOperands, b \in CacheOperands :
       CacheCallOf("add", a, b, cached(cache, "add", a, b, add(a, b)))
  /\ UNCHANGED <<arithVars, calcVars, configVars, chain, batchCall, formatVars>>

CachedSubtract ==
  /\ MayCalculate
  /\ \E a \in CacheOperands, b \in CacheOperands :
       CacheCallOf("subtract", a, b, cached(cache, "subtract", a, b, subtract(a, b)))
  /\ UNCHANGED <<arithVars, calcVars, configVars, chain, batchCall, formatVars>>

CachedMultiply ==
  /\ MayCalculate
  /\ \E a \in CacheOperands, b \in CacheOperands :
       CacheCallOf("multiply", a, b, cached(cache, "multiply", a, b, multiply(a, b)))
  /\ UNCHANGED <<arithVars, calcVars, configVars, chain, batchCall, formatVars>>

CachedDivide ==
  /\ MayCalculate
  /\ \E a \in CacheOperands, b \in CacheOperands :
       CacheCallOf("divide", a, b, cached(cache, "divide", a, b, divideValues(a, b)))
  /\ UNCHANGED <<arithVars, calcVars, configVars, chain, batchCall, formatVars>>

\* clearCache(): this._cache.clear(); return true
ClearCache ==
  /\ cache # {}
  /\ cache' = {}
  /\ cacheCall' = [NoCacheCall EXCEPT !.op = "clearCache"]
  /\ UNCHANGED <<cacheCalls, arithVars, calcVars, configVars, chain, batchCall, formatVars>>

CacheNext == CachedAdd \/ CachedSubtract \/ CachedMultiply \/ CachedDivide \/ ClearCache

SpecCache == CacheInit /\ [][CacheNext]_vars

\* C24: add(a, b) = add(b, a): after add(a, b) on a calculator, add(b, a) on
\* the same calculator returns the same value, whether the cache serves
\* either of them or not.
C24_AddCommutes ==
  (cacheCall.op = "add" /\ cacheCall.res.ok)
    => cached(cache, "add", cacheCall.b, cacheCall.a, add(cacheCall.b, cacheCall.a)).res
         = cacheCall.res

\* add(0.1, 0) served from the cache
C24_Witness ==
  /\ cacheCall.op = "add"
  /\ cacheCall.hit
  /\ cacheCall.a = Decimal(FALSE, 1, 1)
  /\ cacheCall.b = Zero(FALSE)
  /\ cacheCall.res.ok

\* C27: every call on the caching calculator returns exactly the value, or
\* raises exactly the error, that the same call gives with no cache.
C27_CacheIsTransparent ==
  cacheCall.op \in CachedOperations
    => cacheCall.res = uncached(cacheCall.op, cacheCall.a, cacheCall.b)

=============================================================================
